---- MODULE Spec2Model ----
(***************************************************************************)
(* socket-ref: a key-value state-synchronization hub (socketRefServer, V2  *)
(* protocol) translated from src/src/client.js, lines 253-350.             *)
(*                                                                         *)
(* The hub keeps, per key, the latest {value, timestamp} (keyState) and    *)
(* the set of sockets that subscribed to it (keySubscribers).  Handlers    *)
(* run to completion on one event loop, so each handler is one action.     *)
(*                                                                         *)
(* The per-key client engine of the first protocol (SocketRefState) is     *)
(* translated from src/unnamed/part_001, lines 137-433; the client of the  *)
(* second protocol (SharedSocket, createSocketRef) from src/src/client.js, *)
(* lines 10-219.                                                           *)
(***************************************************************************)
EXTENDS Integers, Sequences, FiniteSets, TLC

\* ------------------------------------------------------------- bounds ---

\* Largest timestamp a frame carries and largest reading of the hub's clock.
MaxTime == 2

\* The sockets the hub accepts (each WebSocket object connects once; a
\* reconnecting client shows up as another socket).
Sockets == {"A", "B", "C"}

\* Two of them, for the runs that need no third.
Pair == {"A", "B"}

\* The keys and the (opaque) values that occur in frames.
Keys == {"k", "j"}
Values == {"v1", "v2"}

\* Timestamps a sender can supply: 0 is an integer JavaScript treats as falsy.
Timestamps == 0..MaxTime

\* ------------------------------------------------------------- frames ---

\* A frame whose text is not JSON: JSON.parse throws (client.js:322).
Garbage == [malformed |-> TRUE]

\* JSON.parse of a well-formed frame: a record whose fields may be absent.
\* A frame without a key, sub and unsub, a frame of a kind the hub does not
\* know, and writes without and with a timestamp.
FramesOver(keys) ==
    {Garbage}
    \cup [type : {"set"}]
    \cup [type : {"sub", "unsub", "update"}, key : keys]
    \cup [type : {"set"}, key : keys, value : Values]
    \cup [type : {"set"}, key : keys, value : Values, timestamp : Timestamps]

Frames == FramesOver(Keys)

\* msg.f, or undefined: whether the destructured field is there at all.
Has(msg, f) == f \in DOMAIN msg

\* JSON.stringify({type: 'set', key, value, timestamp}) as the peer parses it
\* back: the four fields, by name (client.js:279-284, 306).
SetMsg(key, value, timestamp) ==
    [type |-> "set", key |-> key, value |-> value, timestamp |-> timestamp]

\* ---------------------------------------------------------- variables ---

VARIABLES
    keyState,        \* Map key -> {value, timestamp}        (client.js:267)
    keySubscribers,  \* Map key -> Set<socket>               (client.js:270)
    socketSubs,      \* per live connection: Set of keys     (client.js:318)
    readyState,      \* per socket: ws readyState
    sent,            \* per socket: the socket.send calls of the last handler
    handled,         \* the branch the last handler took
    prev,            \* the frame the last handler was given
    accepted,        \* history: per key, the updates accepted, in order
    received,        \* history: per socket and key, the broadcasts sent to it
    socketRefState,  \* the fields of one SocketRefState   (part_001:198-234)
    connections,     \* Map url -> SharedSocket              (client.js:11)
    socketRefs,      \* per ref made by createSocketRef: its closure
    out,             \* the socket.send calls of the client handler that ran last
    wire,            \* the client's transport: its socket at the hub, frames in flight
    writeLog,        \* history: the runs of assignments made to the engine's ref
    bind             \* two refs bound by bindRefs: values, guard flags, watcher jobs

hist == <<accepted, received>>
client == <<socketRefState, connections, socketRefs, out, wire, writeLog, bind>>
vars == <<keyState, keySubscribers, socketSubs, readyState, sent, handled, prev,
          accepted, received, socketRefState, connections, socketRefs, out, wire,
          writeLog, bind>>

\* No refs are bound.
NoBind == [none |-> TRUE]

\* No frame: the event handled last was not a message.
NoFrame == [none |-> TRUE]

\* A Map with no entries.
EmptyMap == [k \in {} |-> {}]

\* No socket.send call.
NoSends == [s \in Sockets |-> <<>>]

\* Map.set(key, v).
MapSet(m, key, v) == [k \in (DOMAIN m) \cup {key} |-> IF k = key THEN v ELSE m[k]]

\* Map.delete(key).
MapDelete(m, key) == [k \in (DOMAIN m) \ {key} |-> m[k]]

\* ---------------------------------------------------------------- hub ---

\* const now = timestamp || Date.now();  (client.js:297)
\* undefined and 0 are falsy, every other integer is used as it is.
EffectiveNow(msg, clk) ==
    IF Has(msg, "timestamp") /\ msg.timestamp # 0 THEN msg.timestamp ELSE clk

\* Faulty variant: the comparison lets an equal timestamp through.
AcceptsOrEqual(state, key, now) ==
    key \notin DOMAIN state \/ now >= state[key].timestamp

\* Faulty variant: no conflict resolution, the last update to arrive wins.
AcceptsAny(state, key, now) == TRUE

\* if (!current || now > current.timestamp)  (client.js:301)
Accepts(state, key, now) ==
    key \notin DOMAIN state \/ now > state[key].timestamp

\* Faulty variant: the broadcast goes to every open socket but the sender, as in the
\* first protocol's loop over wss.clients, subscribed or not.
BroadcastTargetsAll(subscribers, ready, socket, key) ==
    {sub \in DOMAIN ready : sub # socket /\ ready[sub] = "OPEN"}

\* Faulty variant: the sender is not left out of the loop.
BroadcastTargetsEcho(subscribers, ready, socket, key) ==
    IF key \in DOMAIN subscribers
    THEN {sub \in subscribers[key] : ready[sub] = "OPEN"}
    ELSE {}

\* The sockets the broadcast loop sends to (client.js:305-311).
BroadcastTargets(subscribers, ready, socket, key) ==
    IF key \in DOMAIN subscribers
    THEN {sub \in subscribers[key] : sub # socket /\ ready[sub] = "OPEN"}
    ELSE {}

\* keySubscribers after subscribe(socket, key)  (client.js:273-274)
SubscribeIndex(subscribers, socket, key) ==
    MapSet(subscribers, key,
           (IF key \in DOMAIN subscribers THEN subscribers[key] ELSE {}) \cup {socket})

\* Faulty variant: the key's whole subscriber set is dropped with the socket.
UnsubscribeIndexDropKey(subscribers, socket, key) ==
    IF key \in DOMAIN subscribers /\ socket \in subscribers[key]
    THEN [k \in (DOMAIN subscribers) \ {key} |-> subscribers[k]]
    ELSE subscribers

\* Faulty variant: the set of a key is kept when its last socket leaves.
UnsubscribeIndexKeepEmpty(subscribers, socket, key) ==
    IF key \in DOMAIN subscribers
    THEN MapSet(subscribers, key, subscribers[key] \ {socket})
    ELSE subscribers

\* keySubscribers after unsubscribe(socket, key)  (client.js:288-294)
UnsubscribeIndex(subscribers, socket, key) ==
    IF key \in DOMAIN subscribers
    THEN IF subscribers[key] \ {socket} = {}
         THEN MapDelete(subscribers, key)
         ELSE MapSet(subscribers, key, subscribers[key] \ {socket})
    ELSE subscribers

\* Faulty variant: the close handler stops after the first key of the set.
UnsubscribeFirst(subscribers, socket, keys) ==
    IF keys = {} THEN subscribers
    ELSE UnsubscribeIndex(subscribers, socket, CHOOSE k \in keys : TRUE)

\* unsubscribe(socket, key) for every key of a set, as the close handler's
\* loop does (client.js:343-345); the keys are distinct, so the order of the
\* loop does not show in the result.
RECURSIVE UnsubscribeAll(_, _, _)
UnsubscribeAll(subscribers, socket, keys) ==
    IF keys = {} THEN subscribers
    ELSE LET key == CHOOSE k \in keys : TRUE
         IN  UnsubscribeAll(UnsubscribeIndex(subscribers, socket, key),
                            socket, keys \ {key})

\* Faulty variant: the current state goes to every subscriber of the key.
SubscribeAnnounce(socket, key) ==
    /\ keySubscribers' = [k \in (DOMAIN keySubscribers) \cup {key} |->
                            IF k = key
                            THEN (IF key \in DOMAIN keySubscribers
                                  THEN keySubscribers[key] ELSE {}) \cup {socket}
                            ELSE keySubscribers[k]]
    /\ sent' = IF key \in DOMAIN keyState
               THEN [s \in Sockets |->
                       IF s \in keySubscribers'[key]
                       THEN <<SetMsg(key, keyState[key].value, keyState[key].timestamp)>>
                       ELSE <<>>]
               ELSE [s \in Sockets |-> <<>>]
    /\ handled' = "sub"
    /\ UNCHANGED keyState

\* subscribe(socket, key): index the socket, send the current state if any
\* (client.js:272-286).
Subscribe(socket, key) ==
    /\ keySubscribers' = SubscribeIndex(keySubscribers, socket, key)
    /\ sent' = IF key \in DOMAIN keyState
               THEN [NoSends EXCEPT ![socket] =
                        <<SetMsg(key, keyState[key].value, keyState[key].timestamp)>>]
               ELSE NoSends
    /\ handled' = "sub"
    /\ UNCHANGED keyState

\* unsubscribe(socket, key)  (client.js:288-294).
Unsubscribe(socket, key) ==
    /\ keySubscribers' = UnsubscribeIndex(keySubscribers, socket, key)
    /\ sent' = NoSends
    /\ handled' = "unsub"
    /\ UNCHANGED keyState

\* Faulty variant: a refused update is answered with the stored Entry.
HandleSetNotify(socket, key, value, now) ==
    IF Accepts(keyState, key, now)
    THEN /\ keyState' = MapSet(keyState, key, [value |-> value, timestamp |-> now])
         /\ sent' = [s \in Sockets |->
                       IF s \in BroadcastTargets(keySubscribers, readyState, socket, key)
                       THEN <<SetMsg(key, value, now)>> ELSE <<>>]
         /\ handled' = "accepted"
         /\ UNCHANGED keySubscribers
    ELSE /\ sent' = [NoSends EXCEPT ![socket] =
                        <<SetMsg(key, keyState[key].value, keyState[key].timestamp)>>]
         /\ handled' = "rejected"
         /\ UNCHANGED <<keyState, keySubscribers>>

\* handleSet(socket, key, value, timestamp)  (client.js:296-314).
HandleSet(socket, key, value, now) ==
    IF Accepts(keyState, key, now)
    THEN /\ keyState' = MapSet(keyState, key, [value |-> value, timestamp |-> now])
         /\ sent' = [s \in Sockets |->
                       IF s \in BroadcastTargets(keySubscribers, readyState, socket, key)
                       THEN <<SetMsg(key, value, now)>> ELSE <<>>]
         /\ handled' = "accepted"
         /\ UNCHANGED keySubscribers
    ELSE /\ sent' = NoSends
         /\ handled' = "rejected"
         /\ UNCHANGED <<keyState, keySubscribers>>

\* wss.on('connection'): a socket is accepted and the closure of its
\* handlers is created, with an empty socketSubs (client.js:316-318).
Connection(socket) ==
    /\ readyState[socket] = "NONE"
    /\ readyState' = [readyState EXCEPT ![socket] = "OPEN"]
    /\ socketSubs' = MapSet(socketSubs, socket, {})
    /\ sent' = NoSends
    /\ handled' = "connection"
    /\ prev' = NoFrame
    /\ UNCHANGED <<keyState, keySubscribers>>

\* Faulty variant: a frame that cannot be handled ends the connection.
MessageFatal(socket, msg, clock) ==
    /\ readyState[socket] \in {"OPEN", "CLOSING"}
    /\ prev' = msg
    /\ IF msg = Garbage \/ ~Has(msg, "key")
       THEN /\ readyState' = [readyState EXCEPT ![socket] = "CLOSING"]
            /\ sent' = NoSends
            /\ handled' = "dropped"
            /\ UNCHANGED <<keyState, keySubscribers, socketSubs>>
       ELSE /\ UNCHANGED readyState
            /\ CASE msg.type = "sub" ->
                    /\ socketSubs' = [socketSubs EXCEPT ![socket] = @ \cup {msg.key}]
                    /\ Subscribe(socket, msg.key)
              [] msg.type = "unsub" ->
                    /\ socketSubs' = [socketSubs EXCEPT ![socket] = @ \ {msg.key}]
                    /\ Unsubscribe(socket, msg.key)
              [] msg.type = "set" ->
                    /\ HandleSet(socket, msg.key, msg.value, EffectiveNow(msg, clock))
                    /\ UNCHANGED socketSubs
              [] OTHER ->
                    /\ readyState' = [readyState EXCEPT ![socket] = "CLOSING"]
                    /\ sent' = NoSends
                    /\ handled' = "unknown"
                    /\ UNCHANGED <<keyState, keySubscribers, socketSubs>>

\* socket.on('message')  (client.js:320-339).  A frame can arrive as long as
\* the 'close' event has not been emitted.
Message(socket, msg, clock) ==
    /\ readyState[socket] \in {"OPEN", "CLOSING"}
    /\ prev' = msg
    /\ UNCHANGED readyState
    /\ IF msg = Garbage \/ ~Has(msg, "key")
       THEN \* JSON.parse threw, or: if (!key) return;
            /\ sent' = NoSends
            /\ handled' = "dropped"
            /\ UNCHANGED <<keyState, keySubscribers, socketSubs>>
       ELSE CASE msg.type = "sub" ->
                    /\ socketSubs' = [socketSubs EXCEPT ![socket] = @ \cup {msg.key}]
                    /\ Subscribe(socket, msg.key)
              [] msg.type = "unsub" ->
                    /\ socketSubs' = [socketSubs EXCEPT ![socket] = @ \ {msg.key}]
                    /\ Unsubscribe(socket, msg.key)
              [] msg.type = "set" ->
                    /\ HandleSet(socket, msg.key, msg.value, EffectiveNow(msg, clock))
                    /\ UNCHANGED socketSubs
              [] OTHER ->
                    /\ sent' = NoSends
                    /\ handled' = "unknown"
                    /\ UNCHANGED <<keyState, keySubscribers, socketSubs>>

\* The transport of a socket starts to close: ws sets readyState to CLOSING
\* before it emits 'close'; no handler of the hub runs.
Closing(socket) ==
    /\ readyState[socket] = "OPEN"
    /\ readyState' = [readyState EXCEPT ![socket] = "CLOSING"]
    /\ sent' = NoSends
    /\ handled' = "closing"
    /\ prev' = NoFrame
    /\ UNCHANGED <<keyState, keySubscribers, socketSubs>>

\* socket.on('close')  (client.js:341-346).  It is the last event of the
\* socket: nothing reads the closure's socketSubs afterwards, and it leaves
\* the state with the closure.
Close(socket) ==
    /\ readyState[socket] = "CLOSING"
    /\ readyState' = [readyState EXCEPT ![socket] = "CLOSED"]
    /\ keySubscribers' = UnsubscribeAll(keySubscribers, socket, socketSubs[socket])
    /\ socketSubs' = MapDelete(socketSubs, socket)
    /\ sent' = NoSends
    /\ handled' = "close"
    /\ prev' = NoFrame
    /\ UNCHANGED keyState

\* The readings Date.now() can give the hub: the wall clock of its host, which
\* is positive and otherwise unrelated to the timestamps the senders supply.
Clock == 1..MaxTime

\* Date.now() is evaluated only when the frame's timestamp is falsy
\* (client.js:297); a handler that does not read the clock has one outcome.
ReadsClock(msg) ==
    /\ msg # Garbage /\ Has(msg, "key") /\ msg.type = "set"
    /\ ~(Has(msg, "timestamp") /\ msg.timestamp # 0)

Readings(msg) == IF ReadsClock(msg) THEN Clock ELSE {1}

\* ------------------------------------------------------------ history ---

\* The update a 'set' frame proposes, as the hub stores it.
Update(msg, clock) == [value |-> msg.value, timestamp |-> EffectiveNow(msg, clock)]

\* What a handled frame adds to the log of accepted updates.
Record(socket, msg, clock) ==
    accepted' = IF handled' = "accepted"
                THEN [accepted EXCEPT ![msg.key] = Append(@, Update(msg, clock))]
                ELSE accepted

\* What a handled frame adds to the logs of broadcasts: the update of each
\* 'set' that handleSet sent, for every socket it was sent to.
RecordBroadcast(socket, msg, clock) ==
    received' = IF handled' = "accepted"
                THEN [s \in Sockets |->
                        [received[s] EXCEPT ![msg.key] =
                            @ \o [i \in 1..Len(sent'[s]) |->
                                    [value |-> sent'[s][i].value,
                                     timestamp |-> sent'[s][i].timestamp]]]]
                ELSE received

\* ------------------------------------- client engine, first protocol ---

\* The key the engine was created for, and the default value of its ref.
EngineKey == "k"
DefaultValue == "v0"

\* JSON null, as the server's 'init' reply carries it for a key without value
\* (part_005:38).
NullValue == "null"

\* pendingWrite = null.
Null == [null |-> TRUE]

\* The rate limiter's numbers: more than RateLimit writes in a window of
\* RateWindow ms start a pause of Cooldown ms (part_001:382-391).
RateLimit == 100
RateWindow == 1000
Cooldown == 1000

\* Largest number of write() calls the environment causes in one window.
MaxWrites == 3

\* What the server of the first protocol sends a client: the reply to 'init'
\* (part_005:35-40) and the broadcast of an accepted update, which has no
\* type (part_005:57); and the hub's 'set', for this key and for another.
ServerFrames ==
    [type : {"init"}, key : {EngineKey}, value : Values \cup {NullValue},
     timestamp : Clock]
    \cup [key : {EngineKey}, value : Values, timestamp : Clock]
    \cup [type : {"set"}, key : Keys, value : Values, timestamp : Clock]

\* JSON.stringify({type: 'init', key})  (part_001:259-262).
InitMsg(key) == [type |-> "init", key |-> key]

\* JSON.stringify({type: 'update', key, value, timestamp})  (part_001:399-404).
UpdateMsg(key, value, timestamp) ==
    [type |-> "update", key |-> key, value |-> value, timestamp |-> timestamp]

\* new SocketRefState(...): the fields after the constructor has run, which
\* ends with connect() (part_001:198-234); now is the constructor's reading
\* of the clock.  socket is the readyState of this.socket.
\* stopWatch is whether the watcher that createSocketRef sets up right after
\* the constructor (part_001:160) is still there.
NewSocketRefState(readyOnly, now) ==
    [state                     |-> DefaultValue,
     readyOnly                 |-> readyOnly,
     pendingWrite              |-> Null,
     timestamp                 |-> 0,
     updatesLastSecond         |-> 0,
     lastRateLimitReset        |-> now,
     rateLimitedUntil          |-> 0,
     isProcessingSocketMessage |-> FALSE,
     ready                     |-> FALSE,
     stopWatch                 |-> TRUE,
     socket                    |-> "CONNECTING"]

\* A handler in progress: the object's fields and the socket.send calls made
\* so far.
Run(self) == [self |-> self, sends |-> <<>>]

\* Faulty variant: write() without the read-only check.
WriteAlways(run, newValue, forceTimestamp, now) ==
    LET ts == IF forceTimestamp # 0 THEN forceTimestamp ELSE now
    IN  IF run.self.socket = "OPEN"
        THEN [self  |-> [run.self EXCEPT !.timestamp = ts],
              sends |-> Append(run.sends, UpdateMsg(EngineKey, newValue, ts))]
        ELSE [self  |-> [run.self EXCEPT !.timestamp = ts,
                            !.pendingWrite = [value |-> newValue, timestamp |-> ts]],
              sends |-> run.sends]

\* Faulty variant: the write that reaches the limit is dropped, not the one
\* that exceeds it.
WriteLimitOrEqual(run, newValue, forceTimestamp, now) ==
    LET self == run.self
    IN  IF self.readyOnly THEN run
        ELSE IF now < self.rateLimitedUntil THEN run
        ELSE
          LET reset   == now - self.lastRateLimitReset > RateWindow
              counted == [self EXCEPT
                            !.updatesLastSecond = (IF reset THEN 0 ELSE @) + 1,
                            !.lastRateLimitReset = IF reset THEN now ELSE @]
          IN  IF counted.updatesLastSecond >= RateLimit
              THEN [run EXCEPT
                      !.self = [counted EXCEPT !.rateLimitedUntil = now + Cooldown]]
              ELSE
                LET ts      == IF forceTimestamp # 0 THEN forceTimestamp ELSE now
                    stamped == [counted EXCEPT !.timestamp = ts]
                IN  IF self.socket = "OPEN"
                    THEN [self  |-> stamped,
                          sends |-> Append(run.sends,
                                           UpdateMsg(EngineKey, newValue, ts))]
                    ELSE [self  |-> [stamped EXCEPT !.pendingWrite =
                                        [value |-> newValue, timestamp |-> ts]],
                          sends |-> run.sends]

\* write(newValue, forceTimestamp = null)  (part_001:369-410).  A
\* forceTimestamp of 0 stands for null as well: both are falsy at line 395.
Write(run, newValue, forceTimestamp, now) ==
    LET self == run.self
    IN  IF self.readyOnly THEN run
        ELSE IF now < self.rateLimitedUntil THEN run
        ELSE
          LET reset   == now - self.lastRateLimitReset > RateWindow
              counted == [self EXCEPT
                            !.updatesLastSecond = (IF reset THEN 0 ELSE @) + 1,
                            !.lastRateLimitReset = IF reset THEN now ELSE @]
          IN  IF counted.updatesLastSecond > RateLimit
              THEN [run EXCEPT
                      !.self = [counted EXCEPT !.rateLimitedUntil = now + Cooldown]]
              ELSE
                LET ts      == IF forceTimestamp # 0 THEN forceTimestamp ELSE now
                    stamped == [counted EXCEPT !.timestamp = ts]
                IN  IF self.socket = "OPEN"
                    THEN [self  |-> stamped,
                          sends |-> Append(run.sends,
                                           UpdateMsg(EngineKey, newValue, ts))]
                    ELSE [self  |-> [stamped EXCEPT !.pendingWrite =
                                        [value |-> newValue, timestamp |-> ts]],
                          sends |-> run.sends]

\* The watcher createSocketRef puts on the ref, flushed synchronously
\* (part_001:160-167).
Watch(run, newVal, now) ==
    IF run.self.isProcessingSocketMessage THEN run
    ELSE IF run.self.ready THEN Write(run, newVal, 0, now)
    ELSE run

\* state.value = v: the ref takes the value and its watcher runs before the
\* assignment returns.
SetValue(run, v, now) == Watch([run EXCEPT !.self.state = v], v, now)

\* Faulty variant: the pending write also wins over a snapshot stamped the same.
InitResponseOrEqual(run, msg, now, later) ==
    LET self == run.self
        reconciled ==
          IF msg.value # NullValue /\ self.pendingWrite # Null
             /\ self.pendingWrite.timestamp >= msg.timestamp
          THEN [Write(SetValue(run, self.pendingWrite.value, now),
                      self.pendingWrite.value, self.pendingWrite.timestamp, now)
                  EXCEPT !.self.timestamp = self.pendingWrite.timestamp]
          ELSE [SetValue(run, IF msg.value = NullValue THEN DefaultValue
                              ELSE msg.value, now)
                  EXCEPT !.self.timestamp = msg.timestamp]
    IN  [reconciled EXCEPT !.self.pendingWrite = Null, !.self.ready = TRUE]

\* The 'init' branch of onmessage (part_001:285-331); later is the clock's
\* reading at line 309.
InitResponse(run, msg, now, later) ==
    LET self            == run.self
        serverTimestamp == IF Has(msg, "timestamp") THEN msg.timestamp ELSE 0
        serverValue     == msg.value
        reconciled ==
          IF serverValue = NullValue
          THEN LET written ==
                     IF self.pendingWrite # Null
                     THEN Write(SetValue(run, self.pendingWrite.value, now),
                                self.pendingWrite.value,
                                self.pendingWrite.timestamp, now)
                     ELSE Write(SetValue(run, DefaultValue, now),
                                DefaultValue, 0, now)
               IN  [written EXCEPT !.self.timestamp = later]
          ELSE IF self.pendingWrite # Null
                  /\ self.pendingWrite.timestamp > serverTimestamp
               THEN [Write(SetValue(run, self.pendingWrite.value, now),
                           self.pendingWrite.value,
                           self.pendingWrite.timestamp, now)
                       EXCEPT !.self.timestamp = self.pendingWrite.timestamp]
               ELSE [SetValue(run, serverValue, now)
                       EXCEPT !.self.timestamp = serverTimestamp]
    IN  [reconciled EXCEPT !.self.pendingWrite = Null, !.self.ready = TRUE]

\* Faulty variant: a set as old as the local timestamp is applied as well.
NormalUpdateOrEqual(run, msg, now) ==
    IF msg.timestamp < run.self.timestamp THEN run
    ELSE SetValue([run EXCEPT !.self.timestamp = msg.timestamp], msg.value, now)

\* The rest of onmessage: a normal update (part_001:333-340).
NormalUpdate(run, msg, now) ==
    IF msg.timestamp <= run.self.timestamp THEN run
    ELSE SetValue([run EXCEPT !.self.timestamp = msg.timestamp], msg.value, now)

\* Faulty variant: no finally; the flag is cleared at the end of the try block,
\* which the early return of a stale update does not reach.
OnMessageFlagLeft(self, msg, now, later) ==
    IF msg.key # EngineKey THEN Run(self)
    ELSE LET run == Run([self EXCEPT !.isProcessingSocketMessage = TRUE])
         IN  IF Has(msg, "type") /\ msg.type = "init"
             THEN [InitResponse(run, msg, now, later)
                     EXCEPT !.self.isProcessingSocketMessage = FALSE]
             ELSE IF msg.timestamp <= self.timestamp THEN run
             ELSE [NormalUpdate(run, msg, now)
                     EXCEPT !.self.isProcessingSocketMessage = FALSE]

\* this.socket.onmessage as a function of the object and the frame
\* (part_001:266-345): what the object is and what was sent when it returns.
\* The ref is taken to be alive (weakState.deref() gives it).
OnMessage(self, msg, now, later) ==
    IF msg.key # EngineKey THEN Run(self)
    ELSE LET run  == Run([self EXCEPT !.isProcessingSocketMessage = TRUE])
             done == IF Has(msg, "type") /\ msg.type = "init"
                     THEN InitResponse(run, msg, now, later)
                     ELSE NormalUpdate(run, msg, now)
         IN  \* finally
             [done EXCEPT !.self.isProcessingSocketMessage = FALSE]

\* Whether onmessage calls write() for this frame.
CallsWrite(self, msg) ==
    /\ msg.key = EngineKey /\ Has(msg, "type") /\ msg.type = "init"
    /\ \/ msg.value = NullValue
       \/ self.pendingWrite # Null /\ self.pendingWrite.timestamp > msg.timestamp

\* Whether the handler reads the clock at line 309.
ReadsLater(msg) ==
    msg.key = EngineKey /\ Has(msg, "type") /\ msg.type = "init" /\ msg.value = NullValue

\* this.socket.onopen  (part_001:253-263).
OnOpen ==
    /\ socketRefState.socket = "CONNECTING"
    /\ socketRefState' = [socketRefState EXCEPT !.socket = "OPEN"]
    /\ out' = <<InitMsg(EngineKey)>>
    /\ handled' = "open"
    /\ prev' = NoFrame

\* this.socket.onmessage  (part_001:266-345).  The client closes its socket
\* only after an error, so no frame reaches it once the closing has begun.
OnMessageEvent(msg, now, later) ==
    /\ socketRefState.socket = "OPEN"
    /\ CallsWrite(socketRefState, msg) => socketRefState.updatesLastSecond < MaxWrites
    /\ LET run == OnMessage(socketRefState, msg, now, later)
       IN  /\ socketRefState' = run.self
           /\ out' = run.sends
    /\ handled' = IF msg.key # EngineKey THEN "foreign"
                  ELSE IF Has(msg, "type") /\ msg.type = "init" THEN "init"
                  ELSE IF msg.timestamp <= socketRefState.timestamp THEN "stale"
                  ELSE "applied"
    /\ prev' = msg

\* The application assigns the ref: state.value = v.  What a read-only
\* createSocketRef returns is a computed without setter (part_001:173-175),
\* so only a writable ref can be assigned.
Assign(v, now) ==
    /\ ~socketRefState.readyOnly
    /\ socketRefState.updatesLastSecond < MaxWrites
    /\ LET run == SetValue(Run(socketRefState), v, now)
       IN  /\ socketRefState' = run.self
           /\ out' = run.sends
    /\ handled' = "assign"
    /\ prev' = [value |-> v, now |-> now]

\* The transport starts to close: the server or the network ends it, or
\* onerror calls this.socket.close() (part_001:356-357).
TransportClosing ==
    /\ socketRefState.socket \in {"CONNECTING", "OPEN"}
    /\ socketRefState' = [socketRefState EXCEPT !.socket = "CLOSING"]
    /\ out' = <<>>
    /\ handled' = "closing"
    /\ prev' = NoFrame

\* Faulty variant: onclose leaves the ready flag as it is.
OnCloseStaysReady ==
    /\ socketRefState.socket = "CLOSING"
    /\ socketRefState' = [socketRefState EXCEPT !.socket = "CLOSED"]
    /\ out' = <<>>
    /\ handled' = "close"
    /\ prev' = NoFrame

\* this.socket.onclose  (part_001:348-353): the timer for connect() is set.
OnClose ==
    /\ socketRefState.socket = "CLOSING"
    /\ socketRefState' = [socketRefState EXCEPT !.socket = "CLOSED", !.ready = FALSE]
    /\ out' = <<>>
    /\ handled' = "close"
    /\ prev' = NoFrame

\* The timer fires: connect() (part_001:240-250, 350).
Reconnect ==
    /\ socketRefState.socket = "CLOSED"
    /\ socketRefState' = [socketRefState EXCEPT !.socket = "CONNECTING"]
    /\ out' = <<>>
    /\ handled' = "connect"
    /\ prev' = NoFrame

\* cleanup()  (part_001:418-431): the watcher is stopped, the socket is told
\* to close and this.socket is set to null; the handlers that connect() gave
\* the socket stay on it.  The finalization registry calls it once, when the
\* ref has been collected.
Cleanup ==
    /\ socketRefState.stopWatch
    /\ socketRefState' = [socketRefState EXCEPT
                            !.stopWatch = FALSE,
                            !.socket = IF @ \in {"CONNECTING", "OPEN"} THEN "CLOSING" ELSE @]
    /\ out' = <<>>
    /\ handled' = "cleanup"
    /\ prev' = NoFrame

\* this.socket.onmessage once the ref has been collected: weakState.deref()
\* gives nothing and the handler returns (part_001:276-295), the flag being
\* reset by the finally.
OnMessageCollected(msg) ==
    /\ ~socketRefState.stopWatch
    /\ socketRefState.socket = "OPEN"
    /\ out' = <<>>
    /\ handled' = "collected"
    /\ prev' = msg
    /\ UNCHANGED socketRefState

\* ------------------------------------------- client, second protocol ---

\* The endpoint the refs are created for: `ws://${ip}:${targetPort}` with the
\* defaults (client.js:16-18).
Url == "ws://localhost:3001"

\* The refs the application creates.
Refs == {"r1", "r2"}

\* Largest length the outbound queue is let grow to.
MaxQueue == 2

\* new SharedSocket(url): the fields after the constructor, which ends with
\* connect() (client.js:36-51, 57-59).  ws is the readyState of this.ws.
NewSharedSocket ==
    [ws             |-> "CONNECTING",
     reconnectTimer |-> FALSE,
     isReady        |-> FALSE,
     subscribers    |-> EmptyMap,
     msgQueue       |-> <<>>]

\* Faulty variant: sendInternal looks at isReady only, not at the socket.
SendInternalReadyOnly(run, payload) ==
    IF run.self.isReady
    THEN [run EXCEPT !.sends = Append(@, payload)]
    ELSE [run EXCEPT !.self.msgQueue = Append(@, payload)]

\* sendInternal(payload)  (client.js:111-117).
SendInternal(run, payload) ==
    IF run.self.isReady /\ run.self.ws = "OPEN"
    THEN [run EXCEPT !.sends = Append(@, payload)]
    ELSE [run EXCEPT !.self.msgQueue = Append(@, payload)]

\* flushQueue()  (client.js:119-123), as onopen calls it: isReady is true and
\* the transport is open, so every sendInternal sends.
RECURSIVE FlushQueue(_)
FlushQueue(run) ==
    IF run.self.msgQueue = <<>> THEN run
    ELSE FlushQueue(SendInternal([run EXCEPT !.self.msgQueue = Tail(@)],
                                 Head(run.self.msgQueue)))

\* Faulty variant: onopen does not resubscribe.
ResubscribeNone(run, keys) == run

\* sendInternal({type: 'sub', key}) for every key of a set (client.js:66-68).
RECURSIVE Resubscribe(_, _)
Resubscribe(run, keys) ==
    IF keys = {} THEN run
    ELSE LET key == CHOOSE k \in keys : TRUE
         IN  Resubscribe(SendInternal(run, [type |-> "sub", key |-> key]),
                         keys \ {key})

\* Faulty variant: subscribe tells the server for every consumer it adds.
SharedSubscribeEvery(run, key, r) ==
    LET asked == SendInternal(
                    IF key \in DOMAIN run.self.subscribers THEN run
                    ELSE [run EXCEPT !.self.subscribers = MapSet(@, key, {})],
                    [type |-> "sub", key |-> key])
    IN  [asked EXCEPT !.self.subscribers[key] = @ \cup {r}]

\* subscribe(key, callback)  (client.js:127-134); the callback is the ref's
\* onRemoteUpdate.
SharedSubscribe(run, key, r) ==
    LET asked == IF key \in DOMAIN run.self.subscribers THEN run
                 ELSE SendInternal([run EXCEPT !.self.subscribers = MapSet(@, key, {})],
                                   [type |-> "sub", key |-> key])
    IN  [asked EXCEPT !.self.subscribers[key] = @ \cup {r}]

\* unsubscribe(key, callback)  (client.js:136-149).
SharedUnsubscribe(run, key, r) ==
    IF key \notin DOMAIN run.self.subscribers THEN run
    ELSE LET subs == run.self.subscribers[key] \ {r}
         IN  IF subs = {}
             THEN SendInternal([run EXCEPT !.self.subscribers = MapDelete(@, key)],
                               [type |-> "unsub", key |-> key])
             ELSE [run EXCEPT !.self.subscribers[key] = subs]

\* update(key, value, timestamp)  (client.js:151-153).
SharedUpdate(run, key, value, timestamp) ==
    SendInternal(run, SetMsg(key, value, timestamp))

\* The closure createSocketRef makes for one ref (client.js:158-173).
NewSocketRef(key, isReadOnly) ==
    [key            |-> key,
     state          |-> DefaultValue,
     isReadOnly     |-> isReadOnly,
     localTimestamp |-> 0,
     isReceiving    |-> FALSE]

\* The watcher of a ref, flushed synchronously; a read-only ref has none
\* (client.js:207-215).  It gives the closure and the connection's run.
RefWatch(ref, run, newVal, now) ==
    IF ref.isReadOnly \/ ref.isReceiving THEN [ref |-> ref, run |-> run]
    ELSE [ref |-> [ref EXCEPT !.localTimestamp = now],
          run |-> SharedUpdate(run, ref.key, newVal, now)]

\* state.value = v in the closure of a ref.
RefSetValue(ref, run, v, now) == RefWatch([ref EXCEPT !.state = v], run, v, now)

\* Faulty variant: the flag is not set around the assignment.
OnRemoteUpdateNoFlag(ref, run, val, ts, now) ==
    IF ts <= ref.localTimestamp THEN [ref |-> ref, run |-> run]
    ELSE RefSetValue([ref EXCEPT !.localTimestamp = ts], run, val, now)

\* onRemoteUpdate(val, ts)  (client.js:175-189).
OnRemoteUpdate(ref, run, val, ts, now) ==
    IF ts <= ref.localTimestamp THEN [ref |-> ref, run |-> run]
    ELSE LET set == RefSetValue([ref EXCEPT !.localTimestamp = ts,
                                            !.isReceiving = TRUE], run, val, now)
         IN  [set EXCEPT !.ref.isReceiving = FALSE]

\* subs.forEach(cb => cb(msg.value, msg.timestamp))  (client.js:104-107): the
\* closures and the connection's run after the callbacks of a set of refs.
RECURSIVE ForEach(_, _, _, _, _)
ForEach(refs, run, subs, msg, now) ==
    IF subs = {} THEN [refs |-> refs, run |-> run]
    ELSE LET r    == CHOOSE x \in subs : TRUE
             done == OnRemoteUpdate(refs[r], run, msg.value, msg.timestamp, now)
         IN  ForEach([refs EXCEPT ![r] = done.ref], done.run, subs \ {r}, msg, now)

\* Whether handleMessage passes the frame to callbacks (client.js:103-105).
Dispatched(shared, msg) ==
    /\ msg # Garbage /\ Has(msg, "type") /\ msg.type = "set"
    /\ msg.key \in DOMAIN shared.subscribers

\* Faulty variant: every ref gets a SharedSocket of its own, which takes the
\* place of the one in the map.
CreateSocketRefOwnSocket(r, key, isReadOnly) ==
    /\ r \notin DOMAIN socketRefs
    /\ LET run == SharedSubscribe(Run(NewSharedSocket), key, r)
       IN  /\ Len(run.self.msgQueue) <= MaxQueue
           /\ connections' = MapSet(connections, Url, run.self)
           /\ out' = run.sends
    /\ socketRefs' = MapSet(socketRefs, r, NewSocketRef(key, isReadOnly))
    /\ handled' = "create"
    /\ prev' = NoFrame

\* createSocketRef(targetRef, key, initialValue, isReadOnly)  (client.js:158-219),
\* getSharedConnection included (client.js:16-24).
CreateSocketRef(r, key, isReadOnly) ==
    /\ r \notin DOMAIN socketRefs
    /\ LET shared == IF Url \in DOMAIN connections THEN connections[Url]
                     ELSE NewSharedSocket
           run    == SharedSubscribe(Run(shared), key, r)
       IN  /\ Len(run.self.msgQueue) <= MaxQueue
           /\ connections' = MapSet(connections, Url, run.self)
           /\ out' = run.sends
    /\ socketRefs' = MapSet(socketRefs, r, NewSocketRef(key, isReadOnly))
    /\ handled' = "create"
    /\ prev' = NoFrame

\* this.ws.onopen  (client.js:61-69).
SharedOnOpen ==
    /\ Url \in DOMAIN connections
    /\ connections[Url].ws = "CONNECTING"
    /\ LET shared == [connections[Url] EXCEPT !.ws = "OPEN", !.isReady = TRUE]
           run    == Resubscribe(FlushQueue(Run(shared)), DOMAIN shared.subscribers)
       IN  /\ connections' = [connections EXCEPT ![Url] = run.self]
           /\ out' = run.sends
    /\ handled' = "open"
    /\ prev' = NoFrame
    /\ UNCHANGED socketRefs

\* this.ws.onmessage  (client.js:71-78) and handleMessage (client.js:101-109).
SharedOnMessage(msg) ==
    /\ Url \in DOMAIN connections
    /\ connections[Url].ws = "OPEN"
    /\ prev' = msg
    /\ IF Dispatched(connections[Url], msg)
       THEN LET done == ForEach(socketRefs, Run(connections[Url]),
                                connections[Url].subscribers[msg.key], msg, 1)
            IN  /\ socketRefs' = done.refs
                /\ connections' = [connections EXCEPT ![Url] = done.run.self]
                /\ out' = done.run.sends
                /\ handled' = "set"
       ELSE /\ UNCHANGED <<socketRefs, connections>>
            /\ out' = <<>>
            /\ handled' = "ignored"

\* The application assigns a ref: state.value = v.  The ref a read-only
\* createSocketRef returns is a computed without setter (client.js:218), so
\* only a writable ref can be assigned.
RefAssign(r, v, now) ==
    /\ r \in DOMAIN socketRefs
    /\ ~socketRefs[r].isReadOnly
    /\ LET done == RefSetValue(socketRefs[r], Run(connections[Url]), v, now)
       IN  /\ Len(done.run.self.msgQueue) <= MaxQueue
           /\ socketRefs' = [socketRefs EXCEPT ![r] = done.ref]
           /\ connections' = [connections EXCEPT ![Url] = done.run.self]
           /\ out' = done.run.sends
    /\ handled' = "assign"
    /\ prev' = [ref |-> r, value |-> v, now |-> now]

\* cleanup() of a ref: its scope is disposed of, or the ref was collected
\* (client.js:29-32, 194-204).
RefCleanup(r) ==
    /\ r \in DOMAIN socketRefs
    /\ r \in UNION {connections[Url].subscribers[k] : k \in DOMAIN connections[Url].subscribers}
    /\ LET run == SharedUnsubscribe(Run(connections[Url]), socketRefs[r].key, r)
       IN  /\ Len(run.self.msgQueue) <= MaxQueue
           /\ connections' = [connections EXCEPT ![Url] = run.self]
           /\ out' = run.sends
    /\ handled' = "cleanup"
    /\ prev' = NoFrame
    /\ UNCHANGED socketRefs

\* The transport starts to close: the hub or the network ends it, or onerror
\* calls this.ws.close() (client.js:86-90).
SharedClosing ==
    /\ Url \in DOMAIN connections
    /\ connections[Url].ws \in {"CONNECTING", "OPEN"}
    /\ connections' = [connections EXCEPT ![Url].ws = "CLOSING"]
    /\ out' = <<>>
    /\ handled' = "closing"
    /\ prev' = NoFrame
    /\ UNCHANGED socketRefs

\* Faulty variant: onclose does not schedule the reconnect.
SharedOnCloseNoTimer ==
    /\ Url \in DOMAIN connections
    /\ connections[Url].ws = "CLOSING"
    /\ connections' = [connections EXCEPT ![Url].ws = "CLOSED",
                                          ![Url].isReady = FALSE]
    /\ out' = <<>>
    /\ handled' = "close"
    /\ prev' = NoFrame
    /\ UNCHANGED socketRefs

\* this.ws.onclose  (client.js:80-84) and scheduleReconnect (client.js:93-99).
SharedOnClose ==
    /\ Url \in DOMAIN connections
    /\ connections[Url].ws = "CLOSING"
    /\ connections' = [connections EXCEPT ![Url].ws = "CLOSED",
                                          ![Url].isReady = FALSE,
                                          ![Url].reconnectTimer = TRUE]
    /\ out' = <<>>
    /\ handled' = "close"
    /\ prev' = NoFrame
    /\ UNCHANGED socketRefs

\* Faulty variant: the timer's callback calls connect() and leaves
\* reconnectTimer as it is.
SharedReconnectKeepTimer ==
    /\ Url \in DOMAIN connections
    /\ connections[Url].reconnectTimer
    /\ connections[Url].ws # "CONNECTING"
    /\ connections' = [connections EXCEPT ![Url].ws = "CONNECTING"]
    /\ out' = <<>>
    /\ handled' = "connect"
    /\ prev' = NoFrame
    /\ UNCHANGED socketRefs

\* The reconnect timer fires (client.js:95-98): connect().
SharedReconnect ==
    /\ Url \in DOMAIN connections
    /\ connections[Url].reconnectTimer
    /\ connections' = [connections EXCEPT ![Url].ws = "CONNECTING",
                                          ![Url].reconnectTimer = FALSE]
    /\ out' = <<>>
    /\ handled' = "connect"
    /\ prev' = NoFrame
    /\ UNCHANGED socketRefs

\* ------------------------------------------------------ specifications ---

\* No client object has been made.
NoClient == [none |-> TRUE]

\* The transport of a client that has not connected: no socket at the hub,
\* nothing in flight in either direction.
NoWire == [peer |-> "NONE", toHub |-> <<>>, toClient |-> <<>>]

\* The hub after socketRefServer() has returned, and no history.
InitHub ==
    /\ keyState = EmptyMap
    /\ keySubscribers = EmptyMap
    /\ socketSubs = EmptyMap
    /\ readyState = [s \in Sockets |-> "NONE"]
    /\ sent = NoSends
    /\ accepted = [k \in Keys |-> <<>>]
    /\ received = [s \in Sockets |-> [k \in Keys |-> <<>>]]

Init ==
    /\ InitHub
    /\ handled = "listen"
    /\ prev = NoFrame
    /\ socketRefState = NoClient
    /\ connections = EmptyMap
    /\ socketRefs = EmptyMap
    /\ out = <<>>
    /\ wire = NoWire
    /\ writeLog = <<>>
    /\ bind = NoBind

\* The hub with three sockets and one key.
Next ==
    \/ \E socket \in Sockets : Connection(socket) /\ UNCHANGED <<hist, client>>
    \/ \E socket \in Sockets, msg \in FramesOver({"k"}) : \E clock \in Readings(msg) :
          Message(socket, msg, clock) /\ UNCHANGED <<hist, client>>
    \/ \E socket \in Sockets : Closing(socket) /\ UNCHANGED <<hist, client>>
    \/ \E socket \in Sockets : Close(socket) /\ UNCHANGED <<hist, client>>

Spec == Init /\ [][Next]_vars

\* The hub with two sockets and two keys.
NextKeys ==
    \/ \E socket \in Pair : Connection(socket) /\ UNCHANGED <<hist, client>>
    \/ \E socket \in Pair, msg \in Frames : \E clock \in Readings(msg) :
          Message(socket, msg, clock) /\ UNCHANGED <<hist, client>>
    \/ \E socket \in Pair : Closing(socket) /\ UNCHANGED <<hist, client>>
    \/ \E socket \in Pair : Close(socket) /\ UNCHANGED <<hist, client>>

SpecKeys == Init /\ [][NextKeys]_vars

\* The hub with two sockets and one key, and the log of accepted updates.
NextHist ==
    \/ \E socket \in Pair : Connection(socket) /\ UNCHANGED <<hist, client>>
    \/ \E socket \in Pair, msg \in FramesOver({"k"}) : \E clock \in Readings(msg) :
          Message(socket, msg, clock) /\ Record(socket, msg, clock)
          /\ UNCHANGED <<received, client>>
    \/ \E socket \in Pair : Closing(socket) /\ UNCHANGED <<hist, client>>
    \/ \E socket \in Pair : Close(socket) /\ UNCHANGED <<hist, client>>

SpecHist == Init /\ [][NextHist]_vars

\* The same, and the log of the broadcasts sent to each socket.
NextOrder ==
    \/ \E socket \in Pair : Connection(socket) /\ UNCHANGED <<hist, client>>
    \/ \E socket \in Pair, msg \in FramesOver({"k"}) : \E clock \in Readings(msg) :
          /\ Message(socket, msg, clock)
          /\ Record(socket, msg, clock)
          /\ RecordBroadcast(socket, msg, clock)
          /\ UNCHANGED client
    \/ \E socket \in Pair : Closing(socket) /\ UNCHANGED <<hist, client>>
    \/ \E socket \in Pair : Close(socket) /\ UNCHANGED <<hist, client>>

SpecOrder == Init /\ [][NextOrder]_vars

\* The variables of the hub.
hub == <<keyState, keySubscribers, socketSubs, readyState, sent>>

\* The readings of Date.now() a client handler takes.
WriteReadings(msg) == IF CallsWrite(socketRefState, msg) THEN Clock ELSE {1}
LaterReadings(msg) == IF ReadsLater(msg) THEN Clock ELSE {1}

\* The clock of a process does not go back: the reading at line 309 is not
\* before the one write() took at line 376.
InOrder(msg, now, later) == ReadsLater(msg) => later >= now

\* The variables of the two clients.
first == socketRefState
second == <<connections, socketRefs>>

\* The frames a server can send a client of the second protocol: the hub's
\* 'set' for a key, a frame of the first protocol's server, and text that is
\* not JSON.
HubFrames ==
    {Garbage, [key |-> EngineKey, value |-> "v1", timestamp |-> 1]}
    \cup [type : {"set"}, key : Keys, value : Values, timestamp : Clock]

\* A client process and the frames a server can send it.  The process loads
\* one of the two clients: either it has made one engine of the first
\* protocol, read-only or not, or it makes refs of the second protocol.
InitEngine ==
    /\ InitHub
    /\ \/ /\ \E readyOnly \in BOOLEAN, now \in Clock :
                socketRefState = NewSocketRefState(readyOnly, now)
          /\ handled = "new"
       \/ /\ socketRefState = NoClient
          /\ handled = "load"
    /\ connections = EmptyMap
    /\ socketRefs = EmptyMap
    /\ out = <<>>
    /\ wire = NoWire
    /\ writeLog = <<>>
    /\ bind = NoBind
    /\ prev = NoFrame

\* The process has made the engine of the first protocol, or it has not and
\* uses the second.
LoadedFirst == socketRefState # NoClient
LoadedSecond == socketRefState = NoClient

\* Of the two refs of the second protocol, the one the application creates
\* read-only.
ReadOnlyRef == "r2"

NextEngine ==
    \/ LoadedFirst /\ OnOpen /\ UNCHANGED <<hub, hist, wire, writeLog, bind, second>>
    \/ /\ LoadedFirst
       /\ \E msg \in ServerFrames :
             \E now \in WriteReadings(msg), later \in LaterReadings(msg) :
                InOrder(msg, now, later) /\ OnMessageEvent(msg, now, later)
       /\ UNCHANGED <<hub, hist, wire, writeLog, bind, second>>
    \/ /\ LoadedFirst
       /\ \E v \in Values, now \in Clock : Assign(v, now)
       /\ UNCHANGED <<hub, hist, wire, writeLog, bind, second>>
    \/ LoadedFirst /\ TransportClosing /\ UNCHANGED <<hub, hist, wire, writeLog, bind, second>>
    \/ LoadedFirst /\ OnClose /\ UNCHANGED <<hub, hist, wire, writeLog, bind, second>>
    \/ LoadedFirst /\ Reconnect /\ UNCHANGED <<hub, hist, wire, writeLog, bind, second>>
    \/ /\ LoadedSecond
       /\ \E r \in Refs : CreateSocketRef(r, EngineKey, r = ReadOnlyRef)
       /\ UNCHANGED <<hub, hist, wire, writeLog, bind, first>>
    \/ LoadedSecond /\ SharedOnOpen /\ UNCHANGED <<hub, hist, wire, writeLog, bind, first>>
    \/ /\ LoadedSecond
       /\ \E msg \in HubFrames : SharedOnMessage(msg)
       /\ UNCHANGED <<hub, hist, wire, writeLog, bind, first>>
    \/ /\ LoadedSecond
       /\ \E r \in Refs, v \in Values, now \in Clock : RefAssign(r, v, now)
       /\ UNCHANGED <<hub, hist, wire, writeLog, bind, first>>
    \/ LoadedSecond /\ (\E r \in Refs : RefCleanup(r)) /\ UNCHANGED <<hub, hist, wire, writeLog, bind, first>>
    \/ LoadedSecond /\ SharedClosing /\ UNCHANGED <<hub, hist, wire, writeLog, bind, first>>
    \/ LoadedSecond /\ SharedOnClose /\ UNCHANGED <<hub, hist, wire, writeLog, bind, first>>
    \/ LoadedSecond /\ SharedReconnect /\ UNCHANGED <<hub, hist, wire, writeLog, bind, first>>

SpecEngine == InitEngine /\ [][NextEngine]_vars

\* A SocketRefState whose ref the application uses and then drops: the
\* engine is cleaned up at any moment, and its sockets live on.
InitCleanup == InitEngine /\ LoadedFirst

NextCleanup ==
    \/ OnOpen /\ UNCHANGED <<hub, hist, wire, writeLog, bind, second>>
    \/ /\ socketRefState.stopWatch
       /\ \E msg \in ServerFrames :
             \E now \in WriteReadings(msg), later \in LaterReadings(msg) :
                InOrder(msg, now, later) /\ OnMessageEvent(msg, now, later)
       /\ UNCHANGED <<hub, hist, wire, writeLog, bind, second>>
    \/ /\ \E msg \in ServerFrames : OnMessageCollected(msg)
       /\ UNCHANGED <<hub, hist, wire, writeLog, bind, second>>
    \/ /\ socketRefState.stopWatch
       /\ \E v \in Values, now \in Clock : Assign(v, now)
       /\ UNCHANGED <<hub, hist, wire, writeLog, bind, second>>
    \/ TransportClosing /\ UNCHANGED <<hub, hist, wire, writeLog, bind, second>>
    \/ OnClose /\ UNCHANGED <<hub, hist, wire, writeLog, bind, second>>
    \/ Reconnect /\ UNCHANGED <<hub, hist, wire, writeLog, bind, second>>
    \/ Cleanup /\ UNCHANGED <<hub, hist, wire, writeLog, bind, second>>

SpecCleanup == InitCleanup /\ [][NextCleanup]_vars

\* The steps of the client's event loop whose turn comes: the close event of
\* a closing socket, the reconnect timer, and the open event of a socket that
\* is connecting.
FirstOnClose == LoadedFirst /\ OnClose /\ UNCHANGED <<hub, hist, wire, writeLog, bind, second>>
FirstReconnect == LoadedFirst /\ Reconnect /\ UNCHANGED <<hub, hist, wire, writeLog, bind, second>>
FirstOnOpen == LoadedFirst /\ OnOpen /\ UNCHANGED <<hub, hist, wire, writeLog, bind, second>>
SecondOnClose == LoadedSecond /\ SharedOnClose /\ UNCHANGED <<hub, hist, wire, writeLog, bind, first>>
SecondReconnect == LoadedSecond /\ SharedReconnect /\ UNCHANGED <<hub, hist, wire, writeLog, bind, first>>
SecondOnOpen == LoadedSecond /\ SharedOnOpen /\ UNCHANGED <<hub, hist, wire, writeLog, bind, first>>

\* The client process with an event loop that runs the close events and the
\* timers that are due, and an endpoint that is reachable again and again: of
\* the connect attempts made without end, one succeeds.
SpecReconnect ==
    /\ SpecEngine
    /\ WF_vars(FirstOnClose) /\ WF_vars(FirstReconnect) /\ SF_vars(FirstOnOpen)
    /\ WF_vars(SecondOnClose) /\ WF_vars(SecondReconnect) /\ SF_vars(SecondOnOpen)

\* -------------------------- the hub and a shared connection together ---

\* The socket the hub accepts for the WebSocket the SharedSocket constructor
\* opens, and the one it accepts for the WebSocket of a later connect().
FirstPeer == "B"
NextPeer == "C"

\* The other clients of the hub: plain WebSockets that speak the protocol.
Outside == Sockets \ {FirstPeer}

\* The one of them that writes; the others only subscribe.
Writer == "A"

\* What such a client sends: a subscription, or writes stamped with a reading
\* of the writer's clock, whose values alternate from one reading to the next.
OutsideFrames(socket) ==
    IF socket = Writer
    THEN {SetMsg(EngineKey, IF ts % 2 = 1 THEN "v1" ELSE "v2", ts) : ts \in Clock}
    ELSE [type : {"sub"}, key : {EngineKey}]

\* The application creates a ref (client.js:158-219).  The first ref makes the
\* connection and its WebSocket (client.js:21, 59).
SysCreate(r, isReadOnly) ==
    /\ CreateSocketRef(r, EngineKey, isReadOnly)
    /\ wire' = [wire EXCEPT !.peer = IF @ = "NONE" THEN FirstPeer ELSE @,
                            !.toHub = @ \o out']
    /\ UNCHANGED <<hub, hist, first, writeLog, bind>>

\* wss.on('connection') for the client's WebSocket (client.js:316-318).
SysAccept ==
    /\ wire.peer \in Sockets
    /\ Connection(wire.peer)
    /\ UNCHANGED <<hist, client>>

\* this.ws.onopen (client.js:61-69): the hub has accepted the socket, and
\* what the handler sends is on its way to the hub.
SysOpen ==
    /\ wire.peer \in Sockets
    /\ readyState[wire.peer] # "NONE"
    /\ SharedOnOpen
    /\ wire' = [wire EXCEPT !.toHub = @ \o out']
    /\ UNCHANGED <<hub, hist, first, writeLog, bind>>

\* The readings of the hub's clock for the next frame of the client.
HubReadings == IF wire.toHub = <<>> THEN {} ELSE Readings(Head(wire.toHub))

\* socket.on('message') of the hub for the next frame of the client
\* (client.js:320-339); what the hub sends the client's socket is on its way.
SysHubMessage(clock) ==
    /\ wire.toHub # <<>>
    /\ Message(wire.peer, Head(wire.toHub), clock)
    /\ Record(wire.peer, Head(wire.toHub), clock)
    /\ RecordBroadcast(wire.peer, Head(wire.toHub), clock)
    /\ wire' = [wire EXCEPT !.toHub = Tail(@), !.toClient = @ \o sent'[wire.peer]]
    /\ UNCHANGED <<first, second, out, writeLog, bind>>

\* socket.on('message') of the hub for a frame of another client.
SysOutside(socket, msg, clock) ==
    /\ Message(socket, msg, clock)
    /\ Record(socket, msg, clock)
    /\ RecordBroadcast(socket, msg, clock)
    /\ wire' = [wire EXCEPT !.toClient =
                   @ \o (IF wire.peer \in Sockets THEN sent'[wire.peer] ELSE <<>>)]
    /\ UNCHANGED <<first, second, out, writeLog, bind>>

\* this.ws.onmessage for the next frame of the hub (client.js:71-78).
SysClientMessage ==
    /\ wire.toClient # <<>>
    /\ SharedOnMessage(Head(wire.toClient))
    /\ wire' = [wire EXCEPT !.toClient = Tail(@), !.toHub = @ \o out']
    /\ UNCHANGED <<hub, hist, first, writeLog, bind>>

\* The hub, a plain client that writes, one that subscribes, and two writable
\* refs of one key on a shared connection that the application never assigns.
\* Every transport stays up.
NextLoop ==
    \/ \E socket \in Outside : Connection(socket) /\ UNCHANGED <<hist, client>>
    \/ \E socket \in Outside : \E msg \in OutsideFrames(socket) : SysOutside(socket, msg, 1)
    \/ \E r \in Refs : SysCreate(r, FALSE)
    \/ SysAccept
    \/ SysOpen
    \/ \E clock \in HubReadings : SysHubMessage(clock)
    \/ SysClientMessage

\* Both ends handle the frames that reach them: a frame in flight on an open
\* transport is delivered, and its 'message' event runs the handler.
SpecLoop ==
    /\ Init /\ [][NextLoop]_vars
    /\ WF_vars(\E clock \in HubReadings : SysHubMessage(clock))
    /\ WF_vars(SysClientMessage)

\* The greatest timestamp a ref of the process holds: the clock of the
\* process has passed every reading it gave a write.
LastReading ==
    LET held == {socketRefs[r].localTimestamp : r \in DOMAIN socketRefs}
    IN  IF held = {} THEN 0 ELSE CHOOSE t \in held : \A u \in held : u <= t

\* The application assigns a ref (client.js:207-215); Date.now() gives a
\* reading later than the ones before.  What update() sends is on its way.
SysAssign(r, v, now) ==
    /\ now > LastReading
    /\ RefAssign(r, v, now)
    /\ wire' = [wire EXCEPT !.toHub = @ \o out']
    /\ UNCHANGED <<hub, hist, first, writeLog, bind>>

\* The client's transport starts to close (client.js:86-90).
SysClosing ==
    /\ SharedClosing
    /\ UNCHANGED <<hub, hist, first, wire, writeLog, bind>>

\* this.ws.onclose (client.js:80-84).
SysOnClose ==
    /\ SharedOnClose
    /\ UNCHANGED <<hub, hist, first, wire, writeLog, bind>>

\* The reconnect timer fires (client.js:95-98): connect() makes another
\* WebSocket, which the hub will know as another socket.  The frames that
\* were in flight on the old transport went with it.
SysReconnect ==
    /\ wire.peer = FirstPeer
    /\ SharedReconnect
    /\ wire' = [peer |-> NextPeer, toHub |-> <<>>, toClient |-> <<>>]
    /\ UNCHANGED <<hub, hist, first, writeLog, bind>>

\* The hub's end of a transport of the client closes (client.js:341-346).
SysHubClosing(socket) == Closing(socket) /\ UNCHANGED <<hist, client>>
SysHubClose(socket) == Close(socket) /\ UNCHANGED <<hist, client>>

\* The hub and one process with a writable and a read-only ref of one key,
\* whose transport can close and be made again once.  No other client writes.
NextDrop ==
    \/ \E r \in Refs : SysCreate(r, r = ReadOnlyRef)
    \/ SysAccept
    \/ SysOpen
    \/ \E clock \in HubReadings : SysHubMessage(clock)
    \/ SysClientMessage
    \/ \E r \in Refs, v \in Values, now \in Clock : SysAssign(r, v, now)
    \/ SysClosing
    \/ SysOnClose
    \/ SysReconnect
    \/ \E socket \in {FirstPeer, NextPeer} : SysHubClosing(socket)
    \/ \E socket \in {FirstPeer, NextPeer} : SysHubClose(socket)

SpecDrop == Init /\ [][NextDrop]_vars

\* The application creates a ref of any key (client.js:158-219).
SysCreateFor(r, key, isReadOnly) ==
    /\ CreateSocketRef(r, key, isReadOnly)
    /\ wire' = [wire EXCEPT !.peer = IF @ = "NONE" THEN FirstPeer ELSE @,
                            !.toHub = @ \o out']
    /\ UNCHANGED <<hub, hist, first, writeLog, bind>>

\* cleanup() of a ref (client.js:194); what unsubscribe sends is on its way.
SysCleanup(r) ==
    /\ RefCleanup(r)
    /\ wire' = [wire EXCEPT !.toHub = @ \o out']
    /\ UNCHANGED <<hub, hist, first, writeLog, bind>>

\* The hub and one process that makes two read-only refs, each of either key,
\* and disposes of them, on a transport that can close and be made again
\* once.  Nobody writes.
NextResub ==
    \/ \E r \in Refs, key \in Keys : SysCreateFor(r, key, TRUE)
    \/ \E r \in Refs : SysCleanup(r)
    \/ SysAccept
    \/ SysOpen
    \/ \E clock \in HubReadings : SysHubMessage(clock)
    \/ SysClosing
    \/ SysOnClose
    \/ SysReconnect
    \/ \E socket \in {FirstPeer, NextPeer} : SysHubClosing(socket)
    \/ \E socket \in {FirstPeer, NextPeer} : SysHubClose(socket)

SpecResub == Init /\ [][NextResub]_vars

\* ---------------------- the rate limiter of the first protocol's engine ---

\* The number of windows of the rate limiter a behaviour spans, and the
\* largest number of runs of assignments the application makes in it.
MaxWindows == 2
MaxRuns == 3

\* Readings of Date.now() in ms: the first two of each window.
RateReadings == {w * RateWindow + d : w \in 0..MaxWindows, d \in 1..2}

\* How many assignments a run has: one, or as many as the limit.
RunSizes == {1, RateLimit}

\* A value other than v: assigning it changes the ref, so that the watcher
\* runs.
Other(v) == IF v = "v1" THEN "v2" ELSE "v1"

\* n assignments in a row, all within one reading of the clock, each of a
\* value the ref does not hold: the first half of them, then the rest.
RECURSIVE AssignTimes(_, _, _)
AssignTimes(run, n, now) ==
    IF n = 0 THEN run
    ELSE IF n = 1 THEN SetValue(run, Other(run.self.state), now)
    ELSE LET half == AssignTimes(run, n \div 2, now)
         IN  IF Len(half.sends) >= 0 /\ half.self.updatesLastSecond >= 0
             THEN AssignTimes(half, n - (n \div 2), now)
             ELSE half

\* The latest reading the clock has given the engine's rate limiter.
RateFloor ==
    IF writeLog = <<>> THEN socketRefState.lastRateLimitReset
    ELSE writeLog[Len(writeLog)].now

\* The application assigns the ref of the ready engine n times in a row at
\* reading now, which is not earlier than the readings before.  The log keeps
\* the engine as it was before the run, and how many updates the run sent.
AssignRun(n, now) ==
    /\ ~socketRefState.readyOnly
    /\ socketRefState.ready
    /\ Len(writeLog) < MaxRuns
    /\ now >= RateFloor
    /\ LET run == AssignTimes(Run(socketRefState), n, now)
       IN  /\ socketRefState' = run.self
           /\ out' = run.sends
           /\ writeLog' = Append(writeLog, [now    |-> now,
                                            writes |-> n,
                                            sent   |-> Len(run.sends),
                                            self   |-> socketRefState])
           /\ prev' = [value |-> run.self.state, now |-> now, times |-> n]
    /\ handled' = "assign"

\* The replies to 'init' of a server that has no Entry for the key, or has
\* "v1" stamped 1.
RateReplies ==
    {msg \in ServerFrames :
        /\ Has(msg, "type") /\ msg.type = "init"
        /\ msg.key = EngineKey /\ msg.timestamp = 1
        /\ msg.value \in {"v1", NullValue}}

\* A writable engine from its construction: the transport opens, the server
\* replies to 'init' once, and the application assigns the ref in runs.  The
\* transport stays up.
InitRate ==
    /\ InitHub
    /\ \E now \in Clock : socketRefState = NewSocketRefState(FALSE, now)
    /\ handled = "new"
    /\ prev = NoFrame
    /\ connections = EmptyMap
    /\ socketRefs = EmptyMap
    /\ out = <<>>
    /\ wire = NoWire
    /\ writeLog = <<>>
    /\ bind = NoBind

NextRate ==
    \/ OnOpen /\ UNCHANGED <<hub, hist, wire, writeLog, bind, second>>
    \/ /\ ~socketRefState.ready
       /\ \E msg \in RateReplies :
             \E now \in WriteReadings(msg), later \in LaterReadings(msg) :
                InOrder(msg, now, later) /\ OnMessageEvent(msg, now, later)
       /\ UNCHANGED <<hub, hist, wire, writeLog, bind, second>>
    \/ /\ \E n \in RunSizes, now \in RateReadings : AssignRun(n, now)
       /\ UNCHANGED <<hub, hist, wire, bind, second>>

SpecRate == InitRate /\ [][NextRate]_vars

\* ------------------------------ a process that writes, and the hub ---

\* The assignments the application makes in one behaviour.
MaxAssigns == 2

\* The reading of the process's clock at its last assignment: Date.now() of
\* one process does not go back.
ClockFloor == IF writeLog = <<>> THEN 1 ELSE writeLog[Len(writeLog)].now

\* The application assigns a ref (client.js:207-215) at any reading of the
\* process's clock, which may be behind the clocks of other writers.  What
\* update() sends is on its way.
SysAssignAt(r, v, now) ==
    /\ now >= ClockFloor
    /\ Len(writeLog) < MaxAssigns
    /\ RefAssign(r, v, now)
    /\ wire' = [wire EXCEPT !.toHub = @ \o out']
    /\ writeLog' = Append(writeLog, [ref |-> r, value |-> v, now |-> now])
    /\ UNCHANGED <<hub, hist, first, bind>>

\* The hub, a plain client that writes, and one process with two writable refs
\* of one key on a shared connection, which the application assigns.  Every
\* transport stays up.
NextShare ==
    \/ Connection(Writer) /\ UNCHANGED <<hist, client>>
    \/ \E msg \in OutsideFrames(Writer) : SysOutside(Writer, msg, 1)
    \/ \E r \in Refs : SysCreate(r, FALSE)
    \/ SysAccept
    \/ SysOpen
    \/ \E clock \in HubReadings : SysHubMessage(clock)
    \/ SysClientMessage
    \/ \E r \in Refs, v \in Values, now \in Clock : SysAssignAt(r, v, now)

\* The transport of the process opens, and both ends handle the frames that
\* reach them.
SpecShare ==
    /\ Init /\ [][NextShare]_vars
    /\ WF_vars(SysAccept)
    /\ WF_vars(SysOpen)
    /\ WF_vars(\E clock \in HubReadings : SysHubMessage(clock))
    /\ WF_vars(SysClientMessage)

\* ----------------------------------------------------------- bindRefs ---

\* The two bindRefs of the repository: the one with flags that the watchers
\* reset (part_001:445-494) and the one with flags that the assigning
\* statement resets (client.js:241-251).
BindVersions == {"flagsResetByWatcher", "flagsResetInline"}

\* The most watcher callbacks one flush may run before the run is given up.
MaxFlush == 4

\* No value was assigned by the application yet.
NotAssigned == "none"

\* bindRefs(refA, refB): the two refs with the values they hold, the two
\* flags, and Vue's two watchers: the value each callback saw last and the
\* jobs queued for the next flush.
NewBind(version, a, b) ==
    [version   |-> version,
     refA      |-> a,
     refB      |-> b,
     updatingA |-> FALSE,
     updatingB |-> FALSE,
     oldA      |-> a,
     oldB      |-> b,
     jobs      |-> <<>>,
     last      |-> NotAssigned,
     runs      |-> 0]

\* Whether the job of a watcher is in the queue already.
Queued(self, which) == \E i \in 1..Len(self.jobs) : self.jobs[i] = which

\* ref.value = v: the setter triggers the watchers of the ref only when the
\* value changes, and a job is queued once (watch, flush 'pre').
SetRef(self, which, v) ==
    LET changed == IF which = "A" THEN self.refA # v ELSE self.refB # v
        set == IF which = "A" THEN [self EXCEPT !.refA = v] ELSE [self EXCEPT !.refB = v]
    IN  IF ~changed THEN self
        ELSE IF Queued(self, which) THEN set
        ELSE [set EXCEPT !.jobs = Append(@, which)]

\* The callback of watch(refA, ...).
\* part_001:459-471: if (updatingA) { updatingA = false; return; }
\*                   updatingB = true; refB.value = newVal;
\* client.js:248:    if (!updatingA) { updatingB = true; refB.value = v; updatingB = false; }
WatchA(self, newVal) ==
    IF self.version = "flagsResetByWatcher"
    THEN IF self.updatingA THEN [self EXCEPT !.updatingA = FALSE]
         ELSE SetRef([self EXCEPT !.updatingB = TRUE], "B", newVal)
    ELSE IF ~self.updatingA
         THEN [SetRef([self EXCEPT !.updatingB = TRUE], "B", newVal)
                  EXCEPT !.updatingB = FALSE]
         ELSE self

\* The callback of watch(refB, ...)  (part_001:474-486, client.js:249).
WatchB(self, newVal) ==
    IF self.version = "flagsResetByWatcher"
    THEN IF self.updatingB THEN [self EXCEPT !.updatingB = FALSE]
         ELSE SetRef([self EXCEPT !.updatingA = TRUE], "A", newVal)
    ELSE IF ~self.updatingB
         THEN [SetRef([self EXCEPT !.updatingA = TRUE], "A", newVal)
                  EXCEPT !.updatingA = FALSE]
         ELSE self

\* The job of a watcher: the callback runs when the value differs from the
\* one the watcher saw last.
RunJob(self, which) ==
    IF which = "A"
    THEN IF self.refA = self.oldA THEN self
         ELSE WatchA([self EXCEPT !.oldA = self.refA, !.runs = @ + 1], self.refA)
    ELSE IF self.refB = self.oldB THEN self
         ELSE WatchB([self EXCEPT !.oldB = self.refB, !.runs = @ + 1], self.refB)

\* Vue's flush: the queued jobs run one after the other, those queued by a
\* callback included, until the queue is empty.
RECURSIVE FlushJobs(_)
FlushJobs(self) ==
    IF self.jobs = <<>> \/ self.runs >= MaxFlush THEN self
    ELSE FlushJobs(RunJob([self EXCEPT !.jobs = Tail(@)], Head(self.jobs)))

\* The application assigns one of the two refs a value other than the one it
\* holds (the setter of a ref does nothing at all for the value it holds).
BindAssign(which, v) ==
    /\ bind # NoBind
    /\ v # (IF which = "A" THEN bind.refA ELSE bind.refB)
    /\ bind' = [SetRef(bind, which, v) EXCEPT !.last = v, !.runs = 0]
    /\ handled' = "assign"
    /\ prev' = [ref |-> which, value |-> v]

\* The tick ends: the watchers run.
BindFlush ==
    /\ bind # NoBind
    /\ bind.jobs # <<>>
    /\ bind' = FlushJobs(bind)
    /\ handled' = "flush"
    /\ prev' = NoFrame

\* bindRefs was called on two refs, which hold any two values.
InitBind ==
    /\ InitHub
    /\ socketRefState = NoClient
    /\ connections = EmptyMap
    /\ socketRefs = EmptyMap
    /\ out = <<>>
    /\ wire = NoWire
    /\ writeLog = <<>>
    /\ handled = "bindRefs"
    /\ prev = NoFrame
    /\ \E version \in BindVersions, a \in Values, b \in Values :
          bind = NewBind(version, a, b)

NextBind ==
    \/ /\ \E which \in {"A", "B"}, v \in Values : BindAssign(which, v)
       /\ UNCHANGED <<hub, hist, first, second, out, wire, writeLog>>
    \/ /\ BindFlush
       /\ UNCHANGED <<hub, hist, first, second, out, wire, writeLog>>

SpecBind == InitBind /\ [][NextBind]_vars

\* ------------------------------------------------------------- claims ---

\* A frame the hub passes to handleSet: a 'set' with a key.
IsWrite(msg) == msg # Garbage /\ Has(msg, "key") /\ msg.type = "set"

\* A frame of the given kind with a key.
IsKind(msg, kind) == msg # Garbage /\ Has(msg, "key") /\ msg.type = kind

\* Whether socket s is in the subscriber set of key k of an index.
SubscribedIn(index, s, k) == k \in DOMAIN index /\ s \in index[k]

\* C1: when the hub handles a write for key k with effective timestamp now,
\* it stores {value, now} as the Entry of k if and only if k has no Entry or
\* now is strictly greater than the stored timestamp; in every other case
\* the Entry of k stays as it was.
C1_AcceptanceRule ==
    [][\A socket \in Sockets, clock \in Clock :
          (IsWrite(prev') /\ Message(socket, prev', clock)) =>
               LET msg == prev'
                   k   == msg.key
                   now == EffectiveNow(msg, clock)
               IN  IF k \notin DOMAIN keyState \/ now > keyState[k].timestamp
                   THEN /\ handled' = "accepted"
                        /\ k \in DOMAIN keyState'
                        /\ keyState'[k] = [value |-> msg.value, timestamp |-> now]
                   ELSE /\ handled' = "rejected"
                        /\ k \in DOMAIN keyState'
                        /\ keyState'[k] = keyState[k]]_vars

\* C1 witness: a second update of the key was accepted over a stored Entry.
C1_Witness ==
    /\ handled = "accepted"
    /\ Len(accepted["k"]) = 2
    /\ keyState["k"] = accepted["k"][2]
    /\ accepted["k"][2].timestamp > accepted["k"][1].timestamp

\* C2: the timestamp of a key's Entry never decreases (and an Entry, once
\* there, stays), and a proposal whose timestamp equals the stored timestamp
\* leaves the stored value as it was.
C2_TimestampMonotone ==
    [][/\ \A k \in DOMAIN keyState :
             /\ k \in DOMAIN keyState'
             /\ keyState'[k].timestamp >= keyState[k].timestamp
       /\ \A socket \in Sockets, clock \in Clock :
             (/\ IsWrite(prev') /\ Message(socket, prev', clock)
              /\ prev'.key \in DOMAIN keyState
              /\ EffectiveNow(prev', clock) = keyState[prev'.key].timestamp)
             => keyState' = keyState]_vars

\* C2 witness: a write with the stored timestamp and another value was
\* handled, and the first writer's value is still the stored one.
C2_Witness ==
    /\ handled = "rejected"
    /\ IsWrite(prev) /\ Has(prev, "timestamp")
    /\ "k" \in DOMAIN keyState
    /\ prev.timestamp = keyState["k"].timestamp
    /\ prev.value # keyState["k"].value

\* The positions of the updates of a log that carry its greatest timestamp.
Greatest(log) ==
    {i \in 1..Len(log) : \A j \in 1..Len(log) : log[j].timestamp <= log[i].timestamp}

\* C3: the stored value of a key is the value of the accepted update with the
\* strictly greatest timestamp among the updates accepted so far for the key.
C3_ValueOfGreatest ==
    \A k \in Keys :
       IF accepted[k] = <<>>
       THEN k \notin DOMAIN keyState
       ELSE /\ k \in DOMAIN keyState
            /\ Cardinality(Greatest(accepted[k])) = 1
            /\ \A i \in Greatest(accepted[k]) : keyState[k] = accepted[k][i]

\* C3 witness: two updates were accepted and a stale one was then refused.
C3_Witness ==
    /\ Len(accepted["k"]) = 2
    /\ handled = "rejected"
    /\ IsWrite(prev) /\ Has(prev, "timestamp")
    /\ prev.timestamp = 1
    /\ keyState["k"].timestamp = 2


\* The 'set' of an accepted write, as handleSet broadcasts it.
Broadcast(msg, clock) == SetMsg(msg.key, msg.value, EffectiveNow(msg, clock))

C5_RejectionSilent ==
    [][\A socket \in Sockets, clock \in Readings(prev') :
          (/\ IsWrite(prev') /\ Message(socket, prev', clock)
           /\ prev'.key \in DOMAIN keyState
           /\ EffectiveNow(prev', clock) <= keyState[prev'.key].timestamp)
          => /\ keyState' = keyState
             /\ sent' = NoSends
             /\ keySubscribers' = keySubscribers
             /\ socketSubs' = socketSubs]_vars

\* C5 witness: with A and B subscribed and an Entry stored at time 2, a
\* write stamped 1 was refused and nothing was sent.
C5_Witness ==
    /\ handled = "rejected"
    /\ IsWrite(prev) /\ Has(prev, "timestamp") /\ prev.timestamp = 1
    /\ keyState["k"].timestamp = 2
    /\ "k" \in DOMAIN keySubscribers /\ keySubscribers["k"] = {"A", "B"}
    /\ readyState["A"] = "OPEN" /\ readyState["B"] = "OPEN"
    /\ sent = NoSends

\* C6 as stated: handling a write that carries the same key, value and
\* timestamp as the frame handled just before it changes no Entry and sends
\* nothing.
C6_DuplicateWrite ==
    [][(/\ IsWrite(prev) /\ Has(prev, "timestamp")
        /\ prev' = prev
        /\ \E socket \in Sockets, clock \in Readings(prev') :
              Message(socket, prev', clock))
       => (keyState' = keyState /\ sent' = NoSends)]_vars

\* C7: when the hub handles sub{key} from a socket, the socket is a
\* subscriber of the key afterwards; if the key has an Entry, the hub sends
\* one set carrying it to that socket and nothing to any other; if it has
\* none, the hub sends nothing.  The Entries are unchanged.
C7_SubscribeSnapshot ==
    [][\A socket \in Sockets, clock \in Readings(prev') :
          (IsKind(prev', "sub") /\ Message(socket, prev', clock)) =>
             LET k == prev'.key
             IN  /\ SubscribedIn(keySubscribers', socket, k)
                 /\ keyState' = keyState
                 /\ sent' = IF k \in DOMAIN keyState
                            THEN [s \in Sockets |->
                                    IF s = socket
                                    THEN <<SetMsg(k, keyState[k].value,
                                                  keyState[k].timestamp)>>
                                    ELSE <<>>]
                            ELSE [s \in Sockets |-> <<>>]]_vars

\* C7 witness: A subscribed to k, which B subscribes to as well, and was sent
\* the stored Entry; B was sent nothing.
C7_Witness ==
    /\ handled = "sub" /\ prev = [type |-> "sub", key |-> "k"]
    /\ "k" \in DOMAIN keyState /\ keyState["k"] = [value |-> "v1", timestamp |-> 2]
    /\ sent["A"] = <<SetMsg("k", "v1", 2)>>
    /\ sent["B"] = <<>>
    /\ SubscribedIn(keySubscribers, "A", "k")
    /\ SubscribedIn(keySubscribers, "B", "k")

\* The number of 'set' messages for key k among the sends to one socket.
NumSets(sends, k) ==
    Cardinality({i \in 1..Len(sends) : sends[i].type = "set" /\ sends[i].key = k})

\* The step handles a write to key k that is accepted and comes from a
\* socket other than c.
AcceptedFromOther(c, k) ==
    /\ IsWrite(prev') /\ prev'.key = k /\ handled' = "accepted"
    /\ \E d \in Sockets \ {c}, clock \in Readings(prev') : Message(d, prev', clock)

\* The step handles sub{k} from socket c while k has an Entry.
SubscribedToEntry(c, k) ==
    /\ IsKind(prev', "sub") /\ prev'.key = k /\ k \in DOMAIN keyState
    /\ \E clock \in Readings(prev') : Message(c, prev', clock)

\* C8 as stated: a socket gets one set per update of the key accepted from
\* another socket while it is subscribed, one set when it subscribes to a key
\* that has an Entry, and no other set for the key.
C8_OneSetPerUpdate ==
    [][\A c \in Sockets, k \in Keys :
          NumSets(sent'[c], k) =
             IF AcceptedFromOther(c, k) /\ SubscribedIn(keySubscribers, c, k)
             THEN 1
             ELSE IF SubscribedToEntry(c, k) THEN 1 ELSE 0]_vars

\* C8 as amended: a socket gets one set per update of the key accepted from
\* another socket while it is subscribed and its readyState is OPEN, one set
\* when it subscribes to a key that has an Entry, and no other set for the
\* key.
C8_OneSetPerUpdateWhileOpen ==
    [][\A c \in Sockets, k \in Keys :
          NumSets(sent'[c], k) =
             IF /\ AcceptedFromOther(c, k)
                /\ SubscribedIn(keySubscribers, c, k)
                /\ readyState[c] = "OPEN"
             THEN 1
             ELSE IF SubscribedToEntry(c, k) THEN 1 ELSE 0]_vars

\* C8 witness: an update was accepted over a stored Entry; B, subscribed and
\* open, was sent one set, and C, open and not subscribed, none.
C8_Witness ==
    /\ handled = "accepted"
    /\ IsWrite(prev) /\ Has(prev, "timestamp") /\ prev.timestamp = 2
    /\ "k" \in DOMAIN keySubscribers /\ keySubscribers["k"] = {"B"}
    /\ readyState["B"] = "OPEN" /\ readyState["C"] = "OPEN"
    /\ NumSets(sent["B"], "k") = 1
    /\ NumSets(sent["C"], "k") = 0

\* Whether sequence r is a subsequence of sequence a, in a's order.
IsSubseq(r, a) ==
    \E f \in [1..Len(r) -> 1..Len(a)] :
       /\ \A i, j \in 1..Len(r) : i < j => f[i] < f[j]
       /\ \A i \in 1..Len(r) : r[i] = a[f[i]]

C10_UnsubscribeFrame ==
    [][\A socket \in Sockets, clock \in Readings(prev') :
          (IsKind(prev', "unsub") /\ Message(socket, prev', clock)) =>
             LET k == prev'.key
             IN  /\ ~SubscribedIn(keySubscribers', socket, k)
                 /\ keyState' = keyState
                 /\ \A s \in Sockets, j \in Keys :
                       (s # socket \/ j # k) =>
                          (SubscribedIn(keySubscribers', s, j)
                             <=> SubscribedIn(keySubscribers, s, j))]_vars

\* C10 witness: after an unsub{k} nobody is subscribed to k, its Entry is
\* still stored, and A and B are still subscribed to j.
C10_Witness ==
    /\ handled = "unsub" /\ prev = [type |-> "unsub", key |-> "k"]
    /\ "k" \notin DOMAIN keySubscribers
    /\ "k" \in DOMAIN keyState
    /\ "j" \in DOMAIN keySubscribers /\ keySubscribers["j"] = {"A", "B"}

\* C11: when the close handler of a socket runs, the socket is in the
\* subscriber set of no key afterwards, whatever it subscribed to before;
\* the Entries and the subscriptions of every other socket are as before.
C11_CloseRemovesAll ==
    [][\A socket \in Sockets :
          Close(socket) =>
             /\ \A k \in Keys : ~SubscribedIn(keySubscribers', socket, k)
             /\ keyState' = keyState
             /\ \A s \in Sockets \ {socket}, k \in Keys :
                   SubscribedIn(keySubscribers', s, k)
                      <=> SubscribedIn(keySubscribers, s, k)]_vars

\* C11 witness: A's close handler has run; the index holds B alone, for both
\* keys, and both Entries are stored.
C11_Witness ==
    /\ handled = "close" /\ readyState["A"] = "CLOSED" /\ readyState["B"] = "OPEN"
    /\ DOMAIN keySubscribers = Keys
    /\ keySubscribers["k"] = {"B"} /\ keySubscribers["j"] = {"B"}
    /\ DOMAIN keyState = Keys

\* C12: a socket is sent a set for a key only while it is in the key's
\* subscriber set or in reply to its own sub; unsub{key} and close take it out
\* of the set, and only its own sub{key} puts it back.  Hence after unsub or
\* close it is sent no set for the key until it subscribes again.
C12_NoSetAfterUnsub ==
    [][\A c \in Sockets, k \in Keys :
          /\ NumSets(sent'[c], k) > 0
                => (SubscribedIn(keySubscribers, c, k) \/ SubscribedToEntry(c, k))
          /\ (IsKind(prev', "unsub") /\ prev'.key = k /\ Message(c, prev', 1))
                => ~SubscribedIn(keySubscribers', c, k)
          /\ Close(c) => ~SubscribedIn(keySubscribers', c, k)
          /\ (~SubscribedIn(keySubscribers, c, k) /\ SubscribedIn(keySubscribers', c, k))
                => (IsKind(prev', "sub") /\ prev'.key = k /\ Message(c, prev', 1))]_vars

\* C12 witness: A was subscribed and got the first broadcast; its close
\* handler ran; B's next update was accepted and nothing was sent to A.
C12_Witness ==
    /\ handled = "accepted"
    /\ readyState["A"] = "CLOSED"
    /\ Len(received["A"]["k"]) = 1
    /\ Len(accepted["k"]) = 2
    /\ ~SubscribedIn(keySubscribers, "A", "k")
    /\ sent["A"] = <<>>

\* A frame the first protocol's engine treats as a normal update of its key.
IsNormalUpdate(msg) ==
    /\ msg \in ServerFrames /\ msg.key = EngineKey
    /\ ~(Has(msg, "type") /\ msg.type = "init")

\* A frame the second protocol's connection passes to the callbacks of a key.
IsDispatched(msg) ==
    /\ LoadedSecond /\ Url \in DOMAIN connections
    /\ msg \in HubFrames /\ Dispatched(connections[Url], msg)

\* C13: when an engine gets a set whose timestamp is not greater than its
\* local timestamp, its value and timestamp stay as they were and nothing is
\* sent or queued; when the timestamp is greater, it takes that value and
\* that timestamp.  For SocketRefState and for every ref the frame is
\* dispatched to.
C13_StaleSetGuard ==
    [][/\ (LoadedFirst /\ IsNormalUpdate(prev') /\ OnMessageEvent(prev', 1, 1)) =>
             IF prev'.timestamp <= socketRefState.timestamp
             THEN socketRefState' = socketRefState /\ out' = <<>>
             ELSE /\ socketRefState'.state = prev'.value
                  /\ socketRefState'.timestamp = prev'.timestamp
       /\ (IsDispatched(prev') /\ SharedOnMessage(prev')) =>
             \A r \in connections[Url].subscribers[prev'.key] :
                IF prev'.timestamp <= socketRefs[r].localTimestamp
                THEN /\ socketRefs'[r] = socketRefs[r]
                     /\ out' = <<>> /\ connections' = connections
                ELSE /\ socketRefs'[r].state = prev'.value
                     /\ socketRefs'[r].localTimestamp = prev'.timestamp]_vars

\* C13 witness: a ref whose local timestamp is 2, from its own write, was
\* passed a set stamped 2 with another value and kept its value.
C13_Witness ==
    /\ LoadedSecond /\ handled = "set"
    /\ "r1" \in DOMAIN socketRefs
    /\ prev.timestamp = 2 /\ socketRefs["r1"].localTimestamp = 2
    /\ prev.value = "v2" /\ socketRefs["r1"].state = "v1"
    /\ out = <<>>

\* The frames of a sequence that are writes.
WritesIn(msgs) == {i \in 1..Len(msgs) : msgs[i].type \in {"set", "update"}}

\* C14: no update loop.  With the hub, plain clients and refs of one key on a
\* shared connection: the handler that applies a remote set sends nothing and
\* queues nothing; no write of the connection is ever in flight; each plain
\* subscriber is sent at most one set per accepted write; and from some point
\* on no frame is in flight between the hub and the connection.
C14_NoUpdateLoop ==
    /\ [][SysClientMessage =>
             /\ out' = <<>>
             /\ connections'[Url].msgQueue = connections[Url].msgQueue]_vars
    /\ [](/\ WritesIn(wire.toHub) = {}
          /\ \A s \in Outside :
                Len(received[s][EngineKey]) <= Len(accepted[EngineKey]))
    /\ <>[](wire.toHub = <<>> /\ wire.toClient = <<>>)

\* C14 witness: a plain client wrote twice, both refs applied the second
\* write, the other plain client was sent both, and nothing is in flight.
C14_Witness ==
    /\ Len(accepted[EngineKey]) = 2
    /\ handled = "set" /\ prev.timestamp = 2
    /\ \A r \in Refs : /\ r \in DOMAIN socketRefs
                        /\ socketRefs[r].localTimestamp = 2
                        /\ socketRefs[r].state = prev.value
    /\ \E s \in Outside : Len(received[s][EngineKey]) = 2
    /\ wire.toHub = <<>> /\ wire.toClient = <<>>

\* C15: between two events the guard flag of every engine is false:
\* isProcessingSocketMessage of SocketRefState, isReceiving of every ref,
\* whichever path the message handler took.
C15_GuardFlagClear ==
    /\ LoadedFirst => ~socketRefState.isProcessingSocketMessage
    /\ \A r \in DOMAIN socketRefs : ~socketRefs[r].isReceiving

\* C15 witness: the engine returned early from a stale update, after a
\* handshake, and its flag is false.
C15_Witness ==
    /\ LoadedFirst /\ handled = "stale"
    /\ socketRefState.ready
    /\ prev.timestamp <= socketRefState.timestamp
    /\ ~socketRefState.isProcessingSocketMessage

\* The ghost of an assignment by the application.
IsAssign(p) == DOMAIN p = {"value", "now"}

\* C16 as stated: an assignment to the ref of an engine that is not ready
\* makes {value, timestamp} the engine's pending write, and sends nothing.
C16_PendingWhenNotReady ==
    [][(/\ LoadedFirst /\ IsAssign(prev') /\ Assign(prev'.value, prev'.now)
        /\ ~socketRefState.ready)
       => /\ socketRefState'.pendingWrite =
                [value |-> prev'.value, timestamp |-> prev'.now]
          /\ out' = <<>>]_vars

\* A frame that is the server's reply to 'init'.
IsInitReply(msg) ==
    /\ msg \in ServerFrames /\ msg.key = EngineKey
    /\ Has(msg, "type") /\ msg.type = "init"

\* An init reply that carries a value: the server's snapshot of the key.
IsSnapshot(msg) == IsInitReply(msg) /\ msg.value # NullValue

\* C17: when the engine gets the server's snapshot (an init reply with a
\* value): if it has a pending write with a timestamp greater than the
\* server's, it keeps the pending value, sends it as one update with the
\* pending timestamp, and is ready; otherwise it takes the server's value and
\* timestamp, sends nothing, and is ready.  Either way no pending write is
\* left.
C17_Handshake ==
    [][\A now \in Clock :
          (LoadedFirst /\ IsSnapshot(prev') /\ OnMessageEvent(prev', now, 1)) =>
             LET pending == socketRefState.pendingWrite
             IN  /\ socketRefState'.ready
                 /\ socketRefState'.pendingWrite = Null
                 /\ IF pending # Null /\ pending.timestamp > prev'.timestamp
                    THEN /\ socketRefState'.state = pending.value
                         /\ socketRefState'.timestamp = pending.timestamp
                         /\ out' = <<UpdateMsg(EngineKey, pending.value,
                                               pending.timestamp)>>
                    ELSE /\ socketRefState'.state = prev'.value
                         /\ socketRefState'.timestamp = prev'.timestamp
                         /\ out' = <<>>]_vars

\* C17 witness: the snapshot was stamped 1, the pending write 2; the engine
\* is ready with the pending value and has sent it.
C17_Witness ==
    /\ LoadedFirst /\ handled = "init"
    /\ prev = [type |-> "init", key |-> EngineKey, value |-> "v2", timestamp |-> 1]
    /\ socketRefState.ready /\ socketRefState.pendingWrite = Null
    /\ socketRefState.state = "v1" /\ socketRefState.timestamp = 2
    /\ out = <<UpdateMsg(EngineKey, "v1", 2)>>

\* The handshake of the second connection is complete: the client's second
\* WebSocket is open at both ends, the hub has indexed its subscription, and
\* no frame is queued or in flight.
Resubscribed ==
    /\ wire.peer = NextPeer /\ readyState[NextPeer] = "OPEN"
    /\ connections[Url].ws = "OPEN" /\ connections[Url].msgQueue = <<>>
    /\ EngineKey \in DOMAIN keySubscribers
    /\ NextPeer \in keySubscribers[EngineKey]
    /\ wire.toHub = <<>> /\ wire.toClient = <<>>

\* C18 as stated: the only writer wrote V at T, its connection dropped and
\* was made again; once the handshake of the new connection is complete the
\* ref holds V and the hub's Entry for the key is V at T.
C18_RoundTrip ==
    (/\ "r1" \in DOMAIN socketRefs
     /\ socketRefs["r1"].localTimestamp > 0
     /\ Resubscribed)
    => /\ EngineKey \in DOMAIN keyState
       /\ keyState[EngineKey] = [value     |-> socketRefs["r1"].state,
                                 timestamp |-> socketRefs["r1"].localTimestamp]

\* C19: ready is false when the engine is made; it becomes true only in the
\* handler of the init reply and false only in onclose, so at most once each
\* per connection; and it is false whenever the transport is closed or not
\* yet open.
C19_ReadyOncePerConnection ==
    /\ [](LoadedFirst =>
            (socketRefState.socket \in {"CONNECTING", "CLOSED"}
                => ~socketRefState.ready))
    /\ [][LoadedFirst =>
            /\ (~socketRefState.ready /\ socketRefState'.ready)
                  => /\ IsInitReply(prev')
                     /\ \E now, later \in Clock : OnMessageEvent(prev', now, later)
            /\ (socketRefState.ready /\ ~socketRefState'.ready) => OnClose]_vars

\* C19 witness: the engine was ready, buffered a write while its transport
\* was closing, and onclose has made it not ready.
C19_Witness ==
    /\ LoadedFirst /\ handled = "close"
    /\ socketRefState.socket = "CLOSED"
    /\ ~socketRefState.ready
    /\ socketRefState.pendingWrite # Null

\* The 'set' and 'update' messages of a sequence.
Writes(msgs) ==
    {msgs[i] : i \in {j \in 1..Len(msgs) : msgs[j].type \in {"set", "update"}}}

\* C20: a read-only engine sends no write.  A read-only SocketRefState sends
\* only 'init' and buffers no write; on a shared connection a write is sent
\* or queued only when a writable ref is assigned, and what the connection
\* sends otherwise is what was queued.
C20_ReadOnlySilent ==
    [][/\ (LoadedFirst /\ socketRefState.readyOnly) =>
             /\ \A i \in 1..Len(out') : out'[i].type = "init"
             /\ socketRefState'.pendingWrite = Null
       /\ (LoadedSecond /\ Url \in DOMAIN connections') =>
             LET before == IF Url \in DOMAIN connections
                           THEN Writes(connections[Url].msgQueue) ELSE {}
                 after  == Writes(out') \cup Writes(connections'[Url].msgQueue)
             IN  IF handled' = "assign"
                 THEN /\ ~socketRefs[prev'.ref].isReadOnly
                      /\ after \subseteq before \cup
                            {SetMsg(socketRefs[prev'.ref].key, prev'.value, prev'.now)}
                 ELSE after \subseteq before]_vars

\* C20 witness: a read-only engine was told by the server that the key has
\* no value; it took its default value, is ready, and wrote nothing back.
C20_Witness ==
    /\ LoadedFirst /\ handled = "init"
    /\ socketRefState.readyOnly /\ socketRefState.ready
    /\ prev.value = NullValue
    /\ socketRefState.state = DefaultValue
    /\ out = <<>>

\* The sum of a field over the runs i..j of the log.
RECURSIVE Total(_, _, _)
Total(f, i, j) == IF i > j THEN 0 ELSE writeLog[i][f] + Total(f, i + 1, j)

\* The start of the rate limiter's window once the first write of run i has
\* been counted (part_001:381-384).
WindowStart(i) ==
    LET run == writeLog[i]
    IN  IF run.now - run.self.lastRateLimitReset > RateWindow THEN run.now
        ELSE run.self.lastRateLimitReset

\* Run i starts in a fresh window: the engine is not pausing and the first
\* write of the run is the first the window counts.
FreshWindow(i) ==
    LET run == writeLog[i]
    IN  /\ run.now >= run.self.rateLimitedUntil
        /\ \/ run.now - run.self.lastRateLimitReset > RateWindow
           \/ run.self.updatesLastSecond = 0

\* The runs i..j are made within the second of the window that run i starts in.
WithinWindow(i, j) ==
    \A k \in i..j : writeLog[k].now - WindowStart(i) <= RateWindow

\* The engine as run i left it.
After(i) == IF i = Len(writeLog) THEN socketRefState ELSE writeLog[i + 1].self

\* C21: of the writes a ready engine with an open transport is given within
\* the second of a fresh window, the first 100 are sent as updates and no
\* other; once the 101st was given at reading t, every write before t + 1000
\* is dropped: nothing is sent, nothing is kept as pending write, and the
\* engine does not change but for the value of its ref.
C21_RateLimit ==
    \A i \in 1..Len(writeLog) : \A j \in i..Len(writeLog) :
       (FreshWindow(i) /\ WithinWindow(i, j)) =>
          /\ Total("sent", i, j) =
                IF Total("writes", i, j) <= RateLimit
                THEN Total("writes", i, j) ELSE RateLimit
          /\ (Total("writes", i, j - 1) <= RateLimit /\ Total("writes", i, j) > RateLimit)
                => \A m \in (j + 1)..Len(writeLog) :
                      writeLog[m].now < writeLog[j].now + Cooldown =>
                         /\ writeLog[m].sent = 0
                         /\ After(m).pendingWrite = Null
                         /\ After(m) = [writeLog[m].self EXCEPT !.state = After(m).state]

\* C21 witness: 100 writes at one reading were all sent, the 101st at the
\* same reading was not, and neither was a write one millisecond later.
C21_Witness ==
    /\ Len(writeLog) = 3
    /\ FreshWindow(1)
    /\ writeLog[1].writes = RateLimit /\ writeLog[1].sent = RateLimit
    /\ writeLog[2].now = writeLog[1].now
    /\ writeLog[2].writes = 1 /\ writeLog[2].sent = 0
    /\ writeLog[3].now = writeLog[1].now + 1
    /\ writeLog[3].sent = 0
    /\ socketRefState.rateLimitedUntil = writeLog[2].now + Cooldown
    /\ socketRefState.pendingWrite = Null

\* C22 as stated: whatever the runs of writes and their readings, the updates
\* an engine sends within any interval shorter than 1000 ms are at most 100.
C22_SlidingWindow ==
    \A i \in 1..Len(writeLog) : \A j \in i..Len(writeLog) :
       writeLog[j].now - writeLog[i].now < RateWindow
          => Total("sent", i, j) <= RateLimit

\* Run i made the engine pause: it set rateLimitedUntil (part_001:391).
EntersCooldown(i) ==
    After(i).rateLimitedUntil # writeLog[i].self.rateLimitedUntil

\* C23 as stated: when a pause was entered at reading t, the first write made
\* at t + 1000 or later is sent as an update.
C23_SelfClears ==
    \A j \in 1..Len(writeLog) : \A m \in (j + 1)..Len(writeLog) :
       (/\ EntersCooldown(j)
        /\ writeLog[m].now >= writeLog[j].now + Cooldown
        /\ \A k \in (j + 1)..(m - 1) : writeLog[k].now < writeLog[j].now + Cooldown)
       => writeLog[m].sent >= 1

\* Whether a sequence starts with another.
StartsWith(a, b) == Len(b) <= Len(a) /\ SubSeq(a, 1, Len(b)) = b

\* The message the handler of this step passed to the connection, if it did:
\* the set of an assignment (client.js:213).
Submitted == IF handled' = "assign"
             THEN <<SetMsg(socketRefs[prev'.ref].key, prev'.value, prev'.now)>>
             ELSE <<>>

\* C24: while the transport of a connection is not open nothing is sent and
\* every message passed to it is appended to the queue, which loses nothing;
\* the open event sends the whole queue first, in the order it was filled,
\* and leaves it empty; while the transport is open a message is sent at once
\* and the queue stays empty.
C24_OutboundQueue ==
    /\ [](\A u \in DOMAIN connections :
             connections[u].ws = "OPEN" => connections[u].msgQueue = <<>>)
    /\ [][(LoadedSecond /\ Url \in DOMAIN connections) =>
            LET shared == connections[Url]
                after  == connections'[Url]
            IN  IF handled' = "open"
                THEN StartsWith(out', shared.msgQueue) /\ after.msgQueue = <<>>
                ELSE IF shared.ws = "OPEN"
                THEN after.msgQueue = <<>> /\ StartsWith(out', Submitted)
                ELSE /\ out' = <<>>
                     /\ StartsWith(after.msgQueue, shared.msgQueue \o Submitted)]_vars

\* C24 witness: a subscription and a write were queued while the transport
\* was connecting; the open event sent them in that order, then the
\* subscription again, and the queue is empty.
C24_Witness ==
    /\ LoadedSecond /\ handled = "open"
    /\ Len(out) = 3
    /\ out[1] = [type |-> "sub", key |-> EngineKey]
    /\ out[2].type = "set"
    /\ connections[Url].msgQueue = <<>>

\* The readyState of the client's socket, whichever client the process uses;
\* "NONE" before the shared connection is made.
Transport ==
    IF LoadedFirst THEN socketRefState.socket
    ELSE IF Url \in DOMAIN connections THEN connections[Url].ws
    ELSE "NONE"

\* C25: every close event of the shared connection sets the reconnect timer,
\* and a closed socket has its timer pending; with an event loop that runs
\* what is due, each closing of the transport, of an open socket or of one
\* that is connecting, is followed by another connect attempt, however many
\* there were before; and with an endpoint that is reachable again and again
\* the transport is open again.
C25_Reconnect ==
    /\ [][(LoadedSecond /\ Url \in DOMAIN connections
           /\ connections[Url].ws = "CLOSING" /\ connections'[Url].ws = "CLOSED")
          => connections'[Url].reconnectTimer]_vars
    /\ [](LoadedSecond /\ Url \in DOMAIN connections /\ connections[Url].ws = "CLOSED"
            => connections[Url].reconnectTimer)
    /\ (Transport = "CLOSING") ~> (Transport = "CONNECTING")
    /\ (Transport \in {"CONNECTING", "CLOSING", "CLOSED"}) ~> (Transport = "OPEN")

\* C25 witness: the shared connection is open again: its open event had
\* nothing queued to send and resubscribed the key.
C25_Witness ==
    /\ LoadedSecond /\ handled = "open"
    /\ out = <<[type |-> "sub", key |-> EngineKey]>>
    /\ connections[Url].ws = "OPEN"
    /\ ~connections[Url].reconnectTimer

\* The transport of the shared connection is open at both ends and every
\* message the client passed to it has been handled by the hub.
Delivered ==
    /\ wire.peer \in Sockets /\ readyState[wire.peer] = "OPEN"
    /\ connections[Url].ws = "OPEN" /\ connections[Url].msgQueue = <<>>
    /\ wire.toHub = <<>>

\* C26: once the transport of the shared connection is open and its messages
\* are delivered, the hub's index has the connection's socket under exactly
\* the keys that have a local consumer, on the first connection and on the
\* one made after a close.
C26_Resubscribed ==
    Delivered =>
       \A k \in Keys :
          (k \in DOMAIN keySubscribers /\ wire.peer \in keySubscribers[k])
             <=> k \in DOMAIN connections[Url].subscribers

\* C26 witness: the second connection is open and delivered; "k", subscribed
\* on the first connection and never unsubscribed there, has no consumer any
\* more and "j" has one; the hub has the new socket under "j" only.
C26_Witness ==
    /\ wire.peer = NextPeer /\ Delivered
    /\ DOMAIN connections[Url].subscribers = {"j"}
    /\ "k" \in DOMAIN keySubscribers /\ keySubscribers["k"] = {FirstPeer}
    /\ keySubscribers["j"] = {NextPeer}

\* The shared connection before and after a step; before it is made it has
\* no consumers and nothing queued.
SharedNow == IF Url \in DOMAIN connections THEN connections[Url] ELSE NewSharedSocket
SharedNext == IF Url \in DOMAIN connections' THEN connections'[Url] ELSE NewSharedSocket

\* The number of local consumers of a key.
Consumers(shared, k) ==
    IF k \in DOMAIN shared.subscribers THEN Cardinality(shared.subscribers[k]) ELSE 0

\* The messages the handler of a step of the client passed to sendInternal:
\* what was sent and what is queued, less what was queued before (sent or
\* still queued, the old queue comes first).  A step of the hub passes none.
Passed ==
    IF <<connections, socketRefs>>' = <<connections, socketRefs>> THEN <<>>
    ELSE LET all == out' \o SharedNext.msgQueue
         IN  SubSeq(all, Len(SharedNow.msgQueue) + 1, Len(all))

\* The open event of the shared connection.
IsOpenEvent == SharedNow.ws = "CONNECTING" /\ SharedNext.ws = "OPEN"

\* A consumer is disposed of.
IsCleanup == handled' = "cleanup" /\ connections' # connections

\* The sub and unsub messages that the changes of the consumers call for: a
\* sub for a key that had no consumer and has one, an unsub for a key that had
\* one and has none.
CalledFor ==
    {[type |-> "sub", key |-> k] :
        k \in {x \in Keys : Consumers(SharedNow, x) = 0 /\ Consumers(SharedNext, x) = 1}}
    \cup
    {[type |-> "unsub", key |-> k] :
        k \in {x \in Keys : Consumers(SharedNow, x) = 1 /\ Consumers(SharedNext, x) = 0}}

\* The messages of a sequence, as a set.
Range(msgs) == {msgs[i] : i \in 1..Len(msgs)}

\* C27 as stated: the connection passes on a sub when the consumers of a key
\* go from 0 to 1, an unsub when they go from 1 to 0, and no sub or unsub in
\* any other case.
C27_SubUnsubOnChange ==
    [][/\ Range(Passed) = CalledFor
       /\ Len(Passed) = Cardinality(CalledFor)]_vars

\* C27, amended: the same in every step but the open event, which passes on
\* one sub for every key that has consumers; and disposing of a consumer
\* leaves the socket as it is and the consumers of the other keys as they are.
C27_SubUnsubOnChangeOrOpen ==
    [][/\ IF IsOpenEvent
          THEN /\ Range(Passed) = {[type |-> "sub", key |-> k] :
                                      k \in DOMAIN SharedNow.subscribers}
               /\ Len(Passed) = Cardinality(DOMAIN SharedNow.subscribers)
               /\ SharedNext.subscribers = SharedNow.subscribers
          ELSE /\ Range(Passed) = CalledFor
               /\ Len(Passed) = Cardinality(CalledFor)
       /\ IsCleanup =>
             /\ SharedNext.ws = SharedNow.ws
             /\ \A k \in Keys :
                   Consumers(SharedNext, k) # Consumers(SharedNow, k)
                      => Consumers(SharedNext, k) = Consumers(SharedNow, k) - 1
             /\ Cardinality({k \in Keys :
                   Consumers(SharedNext, k) # Consumers(SharedNow, k)}) = 1]_vars

\* C27 witness: on an open socket the second consumer of "k" was disposed of
\* while "j" had none: nothing was sent, and "k" still has its first consumer.
C27_Witness ==
    /\ handled = "cleanup" /\ out = <<>>
    /\ connections[Url].ws = "OPEN"
    /\ DOMAIN connections[Url].subscribers = {"k"}
    /\ Cardinality(connections[Url].subscribers["k"]) = 1
    /\ DOMAIN socketRefs = Refs
    /\ \A r \in Refs : socketRefs[r].key = "k"

\* C28: the map has at most the one connection of the endpoint, and every ref
\* is a consumer on it; a connection is never taken out of the map; and a ref
\* created when the endpoint has its connection is added to that connection,
\* which keeps its socket, its timer, its queue and its other consumers.
C28_OneConnection ==
    /\ [](/\ DOMAIN connections \subseteq {Url}
          /\ DOMAIN socketRefs # {} => Url \in DOMAIN connections)
    /\ [][/\ DOMAIN connections \subseteq DOMAIN connections'
          /\ \A r \in (DOMAIN socketRefs') \ DOMAIN socketRefs :
                /\ r \in SharedNext.subscribers[socketRefs'[r].key]
                /\ Url \in DOMAIN connections =>
                      /\ SharedNext.ws = SharedNow.ws
                      /\ SharedNext.isReady = SharedNow.isReady
                      /\ SharedNext.reconnectTimer = SharedNow.reconnectTimer
                      /\ StartsWith(SharedNext.msgQueue, SharedNow.msgQueue)
                      /\ \A k \in DOMAIN SharedNow.subscribers :
                            /\ k \in DOMAIN SharedNext.subscribers
                            /\ SharedNow.subscribers[k] \subseteq SharedNext.subscribers[k]]_vars

\* C28 witness: the second ref, of another key than the first, was created
\* when the connection was open: its sub went out on that socket at once and
\* both refs are consumers of the one connection.
C28_Witness ==
    /\ handled = "create"
    /\ out = <<[type |-> "sub", key |-> "j"]>>
    /\ DOMAIN connections = {Url}
    /\ connections[Url].ws = "OPEN"
    /\ DOMAIN connections[Url].subscribers = {"k", "j"}
    /\ DOMAIN socketRefs = Refs

\* A frame the hub has no handler for: its text is not JSON, it has no key,
\* or its kind is none of sub, unsub and set.
Ignored(msg) ==
    /\ msg # NoFrame
    /\ \/ msg = Garbage
       \/ ~Has(msg, "key")
       \/ msg.type \notin {"sub", "unsub", "set"}

\* C29: a malformed frame, a frame of unknown kind and a frame without a key
\* leave the entries, the subscription index and the sockets' own key sets as
\* they were, send nothing, and leave every socket in the state it had; after
\* such a frame every socket that could be heard before can still subscribe.
C29_IgnoredFrames ==
    /\ [][Ignored(prev') =>
             /\ keyState' = keyState
             /\ keySubscribers' = keySubscribers
             /\ socketSubs' = socketSubs
             /\ readyState' = readyState
             /\ sent' = NoSends]_vars
    /\ [](Ignored(prev) =>
             \A socket \in Sockets :
                 readyState[socket] = "OPEN" =>
                     ENABLED Message(socket, [type |-> "sub", key |-> "k"], 1))

\* C29 witness: a frame that is not JSON was dropped by a hub that holds an
\* entry and an open subscriber of its key.
C29_Witness ==
    /\ handled = "dropped"
    /\ prev = Garbage
    /\ "k" \in DOMAIN keyState
    /\ "k" \in DOMAIN keySubscribers
    /\ \E socket \in keySubscribers["k"] : readyState[socket] = "OPEN"

\* C30: a write that carries a timestamp is judged and stored with that
\* timestamp, whatever integer it is; the clock of the hub is read only for a
\* write without one.
C30_SenderTimestamp ==
    [][(/\ prev' # NoFrame /\ prev' # Garbage
        /\ Has(prev', "key") /\ prev'.type = "set" /\ Has(prev', "timestamp"))
       => /\ handled' = "accepted" =>
                keyState'[prev'.key].timestamp = prev'.timestamp
          /\ handled' = "rejected" =>
                /\ prev'.key \in DOMAIN keyState
                /\ prev'.timestamp <= keyState[prev'.key].timestamp]_vars

\* C31: when the watchers of two bound refs have run, both refs hold the value
\* assigned last, no flush ran more than two callbacks, and neither guard
\* flag is left set to swallow the next assignment.
C31_BindRefsSync ==
    (bind # NoBind /\ bind.jobs = <<>>) =>
        /\ bind.runs <= 2
        /\ ~bind.updatingA /\ ~bind.updatingB
        /\ bind.last # NotAssigned => bind.refA = bind.last /\ bind.refB = bind.last

\* The hub has just accepted the write of value v that ref r made at reading
\* now, while the socket of the process was a subscriber of the key and both
\* refs were consumers on the connection.
AcceptedFrom(r, v, now) ==
    /\ handled = "accepted"
    /\ prev = SetMsg(EngineKey, v, now)
    /\ writeLog # <<>>
    /\ \E i \in 1..Len(writeLog) : writeLog[i] = [ref |-> r, value |-> v, now |-> now]
    /\ DOMAIN socketRefs = Refs
    /\ EngineKey \in DOMAIN keySubscribers
    /\ wire.peer \in keySubscribers[EngineKey]

\* C32: when a ref of a process writes a value that the hub accepts, the
\* other ref of the same key on the same connection comes to hold that value,
\* unless the hub accepts a later write first.
C32_SeenOnSharedConnection ==
    \A r \in Refs, v \in Values, now \in Clock :
        AcceptedFrom(r, v, now) ~>
            \/ \A other \in DOMAIN socketRefs : socketRefs[other].state = v
            \/ EngineKey \in DOMAIN keyState /\ keyState[EngineKey].timestamp > now

\* Every ref of the process holds the value of the hub's entry for its key.
Converged ==
    \A r \in DOMAIN socketRefs :
        socketRefs[r].key \in DOMAIN keyState =>
            socketRefs[r].state = keyState[socketRefs[r].key].value

\* C33: eventual convergence.  The writes are finitely many and every frame
\* in flight is delivered, so from some point on every ref holds the value of
\* the hub's entry, whatever the clocks read.
C33_Convergence == <>[]Converged

\* C34: the local timestamp of a ref never decreases, whatever it receives,
\* whatever the application assigns and whatever the clocks read.
C34_TimestampMonotonic ==
    [][\A r \in (DOMAIN socketRefs) \cap DOMAIN socketRefs' :
          socketRefs'[r].localTimestamp >= socketRefs[r].localTimestamp]_vars

\* C35: when a handler of an engine has sent a write, the local timestamp of
\* the engine is the timestamp of the message it sent last: timestamp of a
\* SocketRefState after an assignment or a handshake, localTimestamp of a ref
\* after an assignment.
C35_TimestampOfWrite ==
    [][/\ (LoadedFirst /\ handled' \in {"init", "assign"} /\ out' # <<>>
           /\ out'[Len(out')].type = "update")
          => socketRefState'.timestamp = out'[Len(out')].timestamp
       /\ (LoadedSecond /\ handled' = "assign" /\ out' # <<>>)
          => socketRefs'[prev'.ref].localTimestamp = out'[Len(out')].timestamp]_vars

\* How many of the messages are a sub of the key.
SubsOf(msgs, k) ==
    Cardinality({i \in 1..Len(msgs) : msgs[i] = [type |-> "sub", key |-> k]})

\* C36: at each open event of the transport the connection sends exactly one
\* sub for every key that has consumers.
C36_OneSubPerOpen ==
    [][IsOpenEvent =>
          \A k \in DOMAIN SharedNext.subscribers : SubsOf(out', k) = 1]_vars

\* C37: once cleanup() has run, the transport of the engine is closing or
\* closed, and the engine sends nothing and makes no new connection.
C37_CleanupFinal ==
    /\ [](~socketRefState.stopWatch => socketRefState.socket \in {"CLOSING", "CLOSED"})
    /\ [][~socketRefState.stopWatch =>
             /\ out' = <<>>
             /\ socketRefState'.socket # "CONNECTING"]_vars

\* C38: the subscription index is consistent.  No key of the index has an
\* empty set of subscribers, and for every connection that has not closed the
\* keys kept for its close are exactly the keys whose set contains it.
C38_IndexConsistent ==
    /\ \A k \in DOMAIN keySubscribers : keySubscribers[k] # {}
    /\ \A socket \in DOMAIN socketSubs :
          socketSubs[socket] =
              {k \in DOMAIN keySubscribers : socket \in keySubscribers[k]}

\* C38 witness: an unsub of a key that has no subscriber was handled while
\* two sockets are subscribed to the other key, one of them to nothing else.
C38_Witness ==
    /\ handled = "unsub"
    /\ prev = [type |-> "unsub", key |-> "j"]
    /\ DOMAIN keySubscribers = {"k"}
    /\ keySubscribers["k"] = {"A", "B"}
    /\ DOMAIN socketSubs = {"A", "B"}
    /\ socketSubs["A"] = {"k"} /\ socketSubs["B"] = {"k"}

\* C39: a reconnect timer of the shared connection is pending only while its
\* transport is closed, and a transport is made only by the pending timer,
\* which is then no longer pending, when the transport before it has closed:
\* there is never a second timer, nor a second transport connecting or open.
C39_OneTimerOneTransport ==
    /\ [](Url \in DOMAIN connections =>
             (connections[Url].reconnectTimer => connections[Url].ws = "CLOSED"))
    /\ [][(Url \in DOMAIN connections /\ handled' = "connect") =>
             /\ connections[Url].ws = "CLOSED"
             /\ connections[Url].reconnectTimer
             /\ ~connections'[Url].reconnectTimer
             /\ connections'[Url].ws = "CONNECTING"]_vars
    /\ [][(Url \in DOMAIN connections /\ connections'[Url].reconnectTimer
           /\ ~connections[Url].reconnectTimer) =>
             connections[Url].ws = "CLOSING" /\ handled' = "close"]_vars

\* C39 witness: the transport closed while it was connecting, the timer
\* fired, and the transport made by it is connecting, with no timer pending
\* and a message still queued.
C39_Witness ==
    /\ Url \in DOMAIN connections
    /\ handled = "connect"
    /\ connections[Url].ws = "CONNECTING"
    /\ ~connections[Url].reconnectTimer
    /\ connections[Url].msgQueue # <<>>

====
